---- MODULE Spec2Model ----
(***************************************************************************)
(* A model of night-orm's struct introspection (pkg/utils/reflection.go),  *)
(* of its SQL statement builder (pkg/utils QueryBuilder) and of its        *)
(* PostgreSQL ORM and transactions (pkg/postgres).                         *)
(*                                                                         *)
(* Go strings are sequences of one-character strings, so that Split,       *)
(* Contains, ToLower, Join and Sprintf are computed character by           *)
(* character, as the library computes them.                                *)
(***************************************************************************)
EXTENDS Integers, Sequences, FiniteSets, TLC

VARIABLES
    obj,      \* the value handed to GetStructFields / GetPrimaryKeyField
    ret,      \* what the last reflection call returned
    qb,       \* the QueryBuilder: [query, args, paramIndex]
    calls,    \* history: the calls made on qb since NewQueryBuilder
    issued,   \* history: the placeholders AddParam returned since the last Reset
    built,    \* what the last Build returned
    budget,   \* the number of calls this run may make on qb
    handle,   \* the PostgresORM handle: its db field and how the last Connect ended
    procs,    \* the concurrent operations on the handle, each with its locals
    heap      \* the QueryBuilder instances the concurrent operations allocated

vars == <<obj, ret, qb, calls, issued, built, budget, handle, procs, heap>>

\* func NewPostgresORM() *PostgresORM { return &PostgresORM{} }: db is nil
NewPostgresORM == [db |-> "nil", connect |-> "none"]

(***************************************************************************)
(* Bounds of the model.                                                    *)
(***************************************************************************)
MaxFields == 2
MaxOps == 3
MaxChain == 4

(***************************************************************************)
(* package strings                                                         *)
(***************************************************************************)
EmptyStr == <<>>

UpperChars == {"I", "D", "N", "T"}

ToLowerChar(c) ==
    CASE c = "I" -> "i"
      [] c = "D" -> "d"
      [] c = "N" -> "n"
      [] c = "T" -> "t"
      [] OTHER -> c

\* strings.ToLower
ToLower(s) == [i \in 1..Len(s) |-> ToLowerChar(s[i])]

\* strings.Contains
Contains(s, sub) ==
    \E i \in 0..(Len(s) - Len(sub)) : SubSeq(s, i + 1, i + Len(sub)) = sub

\* strings.Split(s, sep)[0] for a one-character sep: s up to its first sep
SplitFirst(s, sep) ==
    IF \E i \in 1..Len(s) : s[i] = sep
    THEN LET i == CHOOSE j \in 1..Len(s) :
                      /\ s[j] = sep
                      /\ \A k \in 1..(j - 1) : s[k] # sep
         IN  SubSeq(s, 1, i - 1)
    ELSE s

RECURSIVE Join(_, _)
\* strings.Join
Join(elems, sep) ==
    IF Len(elems) = 0 THEN EmptyStr
    ELSE IF Len(elems) = 1 THEN elems[1]
    ELSE elems[1] \o sep \o Join(Tail(elems), sep)

(***************************************************************************)
(* Values held in fields and bound as arguments: interface{} values with   *)
(* their dynamic type.  Nil is the nil interface.                          *)
(***************************************************************************)
Nil == [type |-> "nil", v |-> 0]
IntVal(n) == [type |-> "int", v |-> n]
StrVal(n) == [type |-> "string", v |-> n]

(***************************************************************************)
(* Struct values.  A field is [Name, Tag, Val]: its identifier, the value  *)
(* of its db tag ("" when it has none) and its current value.              *)
(***************************************************************************)
Str_id == <<"i", "d">>
Str_dash == <<"-">>
Str_comma_primary == <<",", "p", "r", "i", "m", "a", "r", "y">>
Str_comma_unique == <<",", "u", "n", "i", "q", "u", "e">>

FieldNames ==
    { <<"I", "D">>, <<"I", "d">>, <<"i", "d">>,
      <<"N", "a", "m", "e">>, <<"N", "o", "T", "a", "g">> }

FieldTags ==
    { EmptyStr, Str_dash, Str_id, <<"n", "a", "m", "e">>,
      Str_id \o Str_comma_primary, Str_comma_primary,
      Str_id \o Str_comma_unique }

FieldVals == { IntVal(1), IntVal(2) }

StructFields == [Name : FieldNames, Tag : FieldTags, Val : FieldVals]

\* Go rejects a struct type that declares one identifier twice.
DistinctNames(fs) ==
    \A i, j \in 1..Len(fs) : i # j => fs[i].Name # fs[j].Name

Structs ==
    UNION { { fs \in [1..n -> StructFields] : DistinctNames(fs) } : n \in 0..MaxFields }

\* obj interface{}: nil, a struct, a pointer to a struct, a nil pointer, or
\* a value of another kind.
Objects ==
    { [kind |-> k, fields |-> fs] : k \in {"struct", "ptr"}, fs \in Structs }
    \cup { [kind |-> k, fields |-> <<>>] : k \in {"nil", "nilptr", "other"} }

\* a variant of IsStruct that takes the Elem() of a nil pointer for a struct
IsStructOrNilPointer(o) == o.kind \in {"struct", "ptr", "nilptr"}

\* val.Kind() after the Elem() of a pointer
IsStruct(o) == o.kind \in {"struct", "ptr"}

\* reflect.StructField.IsExported: the identifier starts with an upper-case letter
IsExported(field) == field.Name[1] \in UpperChars

\* reflect.Value.CanInterface: false for a value obtained through an unexported field
CanInterface(field) == IsExported(field)

ErrNilObject == "objeto nao pode ser nil"
ErrNotStruct == "objeto deve ser uma estrutura ou um ponteiro para uma estrutura"
ErrNoPrimaryKey == "chave primaria nao encontrada"
NoErr == ""

\* fields[columnName] = fieldValue
MapPut(m, k, v) == [x \in DOMAIN m \cup {k} |-> IF x = k THEN v ELSE m[x]]

EmptyMap == <<>>

(***************************************************************************)
(* GetStructFields                                                         *)
(***************************************************************************)
\* a variant of Skipped that lets db:"-" fields through
SkippedNoDash(field) == ~IsExported(field)

\* the two "continue" branches of the loop
Skipped(field) == ~IsExported(field) \/ field.Tag = Str_dash

\* columnName := tag; if columnName == "" { columnName = strings.ToLower(Name) }
ColumnName(field) ==
    IF field.Tag = EmptyStr THEN ToLower(field.Name) ELSE field.Tag

\* var fieldValue interface{}; if field.CanInterface() { fieldValue = field.Interface() }
FieldValue(field) == IF CanInterface(field) THEN field.Val ELSE Nil

RECURSIVE StructFieldsLoop(_, _, _)
StructFieldsLoop(fs, i, fields) ==
    IF i > Len(fs) THEN fields
    ELSE IF Skipped(fs[i]) THEN StructFieldsLoop(fs, i + 1, fields)
    ELSE StructFieldsLoop(fs, i + 1,
                          MapPut(fields, ColumnName(fs[i]), FieldValue(fs[i])))

GetStructFields(o) ==
    IF o.kind = "nil"
    THEN [isNil |-> TRUE, fields |-> EmptyMap, err |-> ErrNilObject]
    ELSE IF ~IsStruct(o)
    THEN [isNil |-> TRUE, fields |-> EmptyMap, err |-> ErrNotStruct]
    ELSE [isNil |-> FALSE,
          fields |-> StructFieldsLoop(o.fields, 1, EmptyMap),
          err |-> NoErr]

(***************************************************************************)
(* GetPrimaryKeyField                                                      *)
(***************************************************************************)
\* strings.Contains(tag, ",primary")
IsPrimaryTag(tag) == Contains(tag, Str_comma_primary)


\* strings.ToLower(fieldType.Name) == "id"
IsIdName(field) == ToLower(field.Name) = Str_id

\* columnName := strings.Split(tag, ",")[0], defaulting to the lower-cased name
PrimaryColumnName(field) ==
    LET columnName == SplitFirst(field.Tag, ",")
    IN  IF columnName = EmptyStr THEN ToLower(field.Name) ELSE columnName

\* columnName := tag, defaulting to "id"
IdColumnName(field) ==
    IF field.Tag = EmptyStr \/ field.Tag = Str_dash THEN Str_id ELSE field.Tag

\* a variant of PrimaryKeyNotFound that defaults to the column "id" without error
PrimaryKeyNotFoundAsId ==
    [name |-> Str_id, value |-> Nil, err |-> NoErr]

PrimaryKeyNotFound ==
    [name |-> EmptyStr, value |-> Nil, err |-> ErrNoPrimaryKey]

RECURSIVE IdLoop(_, _)
\* the second loop: the first field named "id" in any letter case
IdLoop(fs, i) ==
    IF i > Len(fs) THEN PrimaryKeyNotFound
    ELSE IF IsIdName(fs[i])
    THEN [name |-> IdColumnName(fs[i]), value |-> FieldValue(fs[i]), err |-> NoErr]
    ELSE IdLoop(fs, i + 1)

\* a variant of PrimaryLoop that tests name and tag in one pass, so that an
\* earlier field named "id" wins over a later primary tag
RECURSIVE IdFirstLoop(_, _)
IdFirstLoop(fs, i) ==
    IF i > Len(fs) THEN PrimaryKeyNotFound
    ELSE IF IsIdName(fs[i])
    THEN [name |-> IdColumnName(fs[i]), value |-> FieldValue(fs[i]), err |-> NoErr]
    ELSE IF IsPrimaryTag(fs[i].Tag)
    THEN [name |-> PrimaryColumnName(fs[i]), value |-> FieldValue(fs[i]),
          err |-> NoErr]
    ELSE IdFirstLoop(fs, i + 1)

RECURSIVE PrimaryLoop(_, _)
\* the first loop: the first field whose tag contains ",primary"
PrimaryLoop(fs, i) ==
    IF i > Len(fs) THEN IdLoop(fs, 1)
    ELSE IF IsPrimaryTag(fs[i].Tag)
    THEN [name |-> PrimaryColumnName(fs[i]), value |-> FieldValue(fs[i]),
          err |-> NoErr]
    ELSE PrimaryLoop(fs, i + 1)

GetPrimaryKeyField(o) ==
    IF o.kind = "nil"
    THEN [name |-> EmptyStr, value |-> Nil, err |-> ErrNilObject]
    ELSE IF ~IsStruct(o)
    THEN [name |-> EmptyStr, value |-> Nil, err |-> ErrNotStruct]
    ELSE PrimaryLoop(o.fields, 1)

(***************************************************************************)
(* package fmt and strconv, for the operands the builder passes            *)
(***************************************************************************)
DigitChars == <<"0", "1", "2", "3", "4", "5", "6", "7", "8", "9">>

RECURSIVE FormatNat(_)
FormatNat(n) ==
    IF n < 10 THEN <<DigitChars[n + 1]>>
    ELSE FormatNat(n \div 10) \o <<DigitChars[(n % 10) + 1]>>

\* the %d verb of an int operand
Itoa(n) == IF n < 0 THEN <<"-">> \o FormatNat(-n) ELSE FormatNat(n)

Lit_MISSING == <<"(", "M", "I", "S", "S", "I", "N", "G", ")">>
Lit_NOVERB == <<"%", "!", "(", "N", "O", "V", "E", "R", "B", ")">>
Lit_EXTRA == <<"%", "!", "(", "E", "X", "T", "R", "A", " ">>
Lit_string_eq == <<"s", "t", "r", "i", "n", "g", "=">>
Lit_comma_sp == <<",", " ">>

\* the operands Sprintf was given and did not use
ExtraOperands(a, argNum) ==
    IF argNum < Len(a)
    THEN Lit_EXTRA
         \o Join([k \in 1..(Len(a) - argNum) |-> Lit_string_eq \o a[argNum + k]],
                 Lit_comma_sp)
         \o <<")">>
    ELSE EmptyStr

RECURSIVE SprintfFrom(_, _, _, _)
\* fmt.Sprintf(format, a...) for string operands a, from position i of format
\* with argNum operands used: %s and %v print the operand, %% prints a percent
\* sign, another verb or a missing operand prints fmt's error text.
SprintfFrom(format, a, i, argNum) ==
    IF i > Len(format) THEN ExtraOperands(a, argNum)
    ELSE IF format[i] # "%"
    THEN <<format[i]>> \o SprintfFrom(format, a, i + 1, argNum)
    ELSE IF i = Len(format) THEN Lit_NOVERB
    ELSE LET verb == format[i + 1]
         IN  IF verb = "%"
             THEN <<"%">> \o SprintfFrom(format, a, i + 2, argNum)
             ELSE IF argNum >= Len(a)
             THEN <<"%", "!", verb>> \o Lit_MISSING
                  \o SprintfFrom(format, a, i + 2, argNum)
             ELSE IF verb \in {"s", "v"}
             THEN a[argNum + 1] \o SprintfFrom(format, a, i + 2, argNum + 1)
             ELSE <<"%", "!", verb, "(">> \o Lit_string_eq \o a[argNum + 1] \o <<")">>
                  \o SprintfFrom(format, a, i + 2, argNum + 1)

Sprintf(format, a) == SprintfFrom(format, a, 1, 0)

(***************************************************************************)
(* QueryBuilder.  Each method is an operator from the builder before the   *)
(* call to the builder after it.                                           *)
(***************************************************************************)
Lit_SELECT == <<"S", "E", "L", "E", "C", "T", " ">>
Lit_star == <<"*">>
Lit_FROM == <<" ", "F", "R", "O", "M", " ">>
Lit_WHERE == <<" ", "W", "H", "E", "R", "E", " ">>
Lit_AND == <<" ", "A", "N", "D", " ">>
Lit_OR == <<" ", "O", "R", " ">>
Lit_ORDER_BY == <<" ", "O", "R", "D", "E", "R", " ", "B", "Y", " ">>
Lit_LIMIT == <<" ", "L", "I", "M", "I", "T", " ">>
Lit_OFFSET == <<" ", "O", "F", "F", "S", "E", "T", " ">>
Lit_INSERT_INTO == <<"I", "N", "S", "E", "R", "T", " ", "I", "N", "T", "O", " ", "%", "s", " ", "(">>
Lit_VALUES == <<")", " ", "V", "A", "L", "U", "E", "S", " ", "(">>
Lit_rparen == <<")">>
Lit_UPDATE_SET == <<"U", "P", "D", "A", "T", "E", " ", "%", "s", " ", "S", "E", "T", " ">>
Lit_eq == <<"%", "s", " ", "=", " ", "%", "s">>
Lit_DELETE_FROM == <<"D", "E", "L", "E", "T", "E", " ", "F", "R", "O", "M", " ", "%", "s">>
Lit_RETURNING == <<" ", "R", "E", "T", "U", "R", "N", "I", "N", "G", " ">>

NewQueryBuilder == [query |-> EmptyStr, args |-> <<>>, paramIndex |-> 1]

\* a variant of Reset that leaves the counter where it is
ResetKeepsIndex(b) == [b EXCEPT !.query = EmptyStr, !.args = <<>>]

Reset(b) == [query |-> EmptyStr, args |-> <<>>, paramIndex |-> 1]

\* a variant of AddParam that does not advance the counter
AddParamNoIncrement(b, value) ==
    [qb |-> [b EXCEPT !.args = Append(@, value)],
     placeholder |-> <<"$">> \o Itoa(b.paramIndex)]

\* returns the builder after the call and the placeholder
AddParam(b, value) ==
    [qb |-> [b EXCEPT !.args = Append(@, value), !.paramIndex = @ + 1],
     placeholder |-> <<"$">> \o Itoa(b.paramIndex)]

Write(b, s) == [b EXCEPT !.query = @ \o s]

RECURSIVE AddParams(_, _)
\* for i, arg := range args { placeholders[i] = qb.AddParam(arg) }
AddParams(b, values) ==
    IF Len(values) = 0 THEN [qb |-> b, placeholders |-> <<>>]
    ELSE LET first == AddParam(b, Head(values))
             rest == AddParams(first.qb, Tail(values))
         IN  [qb |-> rest.qb,
              placeholders |-> <<first.placeholder>> \o rest.placeholders]

\* a variant of WriteWithParams that numbers the placeholders of each call from 1
WriteWithParamsPerClause(b, format, a) ==
    LET bound == AddParams(b, a)
        fromOne == AddParams(NewQueryBuilder, a)
    IN  Write(bound.qb, Sprintf(format, fromOne.placeholders))

WriteWithParams(b, format, a) ==
    LET bound == AddParams(b, a)
    IN  Write(bound.qb, Sprintf(format, bound.placeholders))

WriteSelect(b, columns) ==
    IF Len(columns) = 0
    THEN Write(Write(b, Lit_SELECT), Lit_star)
    ELSE Write(Write(b, Lit_SELECT), Join(columns, Lit_comma_sp))

WriteFrom(b, table) == Write(Write(b, Lit_FROM), table)

WriteWhere(b, condition, a) == WriteWithParams(Write(b, Lit_WHERE), condition, a)

WriteAnd(b, condition, a) == WriteWithParams(Write(b, Lit_AND), condition, a)

WriteOr(b, condition, a) == WriteWithParams(Write(b, Lit_OR), condition, a)

WriteOrderBy(b, columns) ==
    IF Len(columns) > 0
    THEN Write(Write(b, Lit_ORDER_BY), Join(columns, Lit_comma_sp))
    ELSE b

\* a variant of WriteLimit that writes the clause for every n but zero
WriteLimitNonZero(b, limit) ==
    IF limit # 0 THEN Write(b, Lit_LIMIT \o Itoa(limit)) ELSE b

WriteLimit(b, limit) ==
    IF limit > 0 THEN Write(b, Lit_LIMIT \o Itoa(limit)) ELSE b

WriteOffset(b, offset) ==
    IF offset > 0 THEN Write(b, Lit_OFFSET \o Itoa(offset)) ELSE b

\* a variant of WriteInsert that numbers its placeholders from 1
WriteInsertRestartsNumbering(b, table, columns, values) ==
    LET b1 == Write(b, Sprintf(Lit_INSERT_INTO, <<table>>))
        b2 == Write(b1, Join(columns, Lit_comma_sp))
        b3 == Write(b2, Lit_VALUES)
        bound == AddParams([b3 EXCEPT !.paramIndex = 1], values)
        b4 == Write(bound.qb, Join(bound.placeholders, Lit_comma_sp))
    IN  Write(b4, Lit_rparen)

WriteInsert(b, table, columns, values) ==
    LET b1 == Write(b, Sprintf(Lit_INSERT_INTO, <<table>>))
        b2 == Write(b1, Join(columns, Lit_comma_sp))
        b3 == Write(b2, Lit_VALUES)
        bound == AddParams(b3, values)
        b4 == Write(bound.qb, Join(bound.placeholders, Lit_comma_sp))
    IN  Write(b4, Lit_rparen)

\* a variant of UpdateLoop that writes no ", " between the pairs
RECURSIVE UpdateLoopNoSeparator(_, _, _, _)
UpdateLoopNoSeparator(b, columns, values, i) ==
    IF i > Len(columns) THEN b
    ELSE LET p == AddParam(b, values[i])
         IN  UpdateLoopNoSeparator(
                 Write(p.qb, Sprintf(Lit_eq, <<columns[i], p.placeholder>>)),
                 columns, values, i + 1)

RECURSIVE UpdateLoop(_, _, _, _)
\* for i := 0; i < len(columns); i++ { ... }, i counted from 1
UpdateLoop(b, columns, values, i) ==
    IF i > Len(columns) THEN b
    ELSE LET b1 == IF i > 1 THEN Write(b, Lit_comma_sp) ELSE b
             p == AddParam(b1, values[i])
         IN  UpdateLoop(Write(p.qb, Sprintf(Lit_eq, <<columns[i], p.placeholder>>)),
                        columns, values, i + 1)

WriteUpdate(b, table, columns, values) ==
    UpdateLoop(Write(b, Sprintf(Lit_UPDATE_SET, <<table>>)), columns, values, 1)

WriteDelete(b, table) == Write(b, Sprintf(Lit_DELETE_FROM, <<table>>))

WriteReturning(b, columns) ==
    IF Len(columns) > 0
    THEN Write(Write(b, Lit_RETURNING), Join(columns, Lit_comma_sp))
    ELSE b

Build(b) == [done |-> TRUE, text |-> b.query, args |-> b.args]

NoBuild == [done |-> FALSE, text |-> EmptyStr, args |-> <<>>]

(***************************************************************************)
(* What the callers of the builder pass in.                                *)
(***************************************************************************)
Tables == { <<"t">> }

ColumnLists == { <<>>, << <<"n">>, <<"e">> >> }

ReturningLists == { <<>>, << <<"i", "d">> >> }

Cond_a == <<"a", " ", "=", " ", "%", "s">>
Cond_ab == <<"a", " ", "=", " ", "%", "s", " ", "A", "N", "D", " ", "b", " ", "=", " ", "%", "s">>

\* "a %% 2 = %s": a remainder test, its percent sign doubled as fmt asks
Cond_mod == <<"a", " ", "%", "%", " ", "2", " ", "=", " ", "%", "s">>

\* condition templates, each with as many arguments as it has %s verbs
Conditions ==
    { [format |-> Cond_a, args |-> <<IntVal(7)>>],
      [format |-> Cond_ab, args |-> <<IntVal(1), StrVal(1)>>],
      [format |-> Cond_mod, args |-> <<IntVal(1)>>] }

\* WriteWithParams called directly, also with too few and too many arguments
Formats ==
    { [format |-> Cond_a, args |-> <<>>],
      [format |-> Cond_a, args |-> <<IntVal(1), StrVal(1)>>] }

ValueLists == { <<StrVal(1), StrVal(2)>> }

Limits == {-1, 0, 10}

Texts == { <<";">> }

ParamValues == { IntVal(7) }

\* one call, as the history keeps it
Call(op, text, strs, vals, n) ==
    [op |-> op, text |-> text, strs |-> strs, vals |-> vals, n |-> n]

\* the builder after call c on builder b
Apply(b, c) ==
    CASE c.op = "Reset" -> Reset(b)
      [] c.op = "AddParam" -> AddParam(b, c.vals[1]).qb
      [] c.op = "Write" -> Write(b, c.text)
      [] c.op = "WriteWithParams" -> WriteWithParams(b, c.text, c.vals)
      [] c.op = "WriteSelect" -> WriteSelect(b, c.strs)
      [] c.op = "WriteFrom" -> WriteFrom(b, c.text)
      [] c.op = "WriteWhere" -> WriteWhere(b, c.text, c.vals)
      [] c.op = "WriteAnd" -> WriteAnd(b, c.text, c.vals)
      [] c.op = "WriteOr" -> WriteOr(b, c.text, c.vals)
      [] c.op = "WriteOrderBy" -> WriteOrderBy(b, c.strs)
      [] c.op = "WriteLimit" -> WriteLimit(b, c.n)
      [] c.op = "WriteOffset" -> WriteOffset(b, c.n)
      [] c.op = "WriteInsert" -> WriteInsert(b, c.text, c.strs, c.vals)
      [] c.op = "WriteUpdate" -> WriteUpdate(b, c.text, c.strs, c.vals)
      [] c.op = "WriteDelete" -> WriteDelete(b, c.text)
      [] c.op = "WriteReturning" -> WriteReturning(b, c.strs)
      [] OTHER -> b

\* the placeholders AddParam hands out while call c runs on builder b: one for
\* each value the call binds, numbered from b's counter
PlaceholdersFrom(b, c) ==
    IF c.op \in {"AddParam", "WriteWithParams", "WriteWhere", "WriteAnd", "WriteOr",
                 "WriteInsert"}
    THEN AddParams(b, c.vals).placeholders
    ELSE IF c.op = "WriteUpdate"
    THEN AddParams(b, SubSeq(c.vals, 1, Len(c.strs))).placeholders
    ELSE <<>>

(***************************************************************************)
(* The steps: one call on the builder.                                     *)
(***************************************************************************)
\* the call budget of the model
MayCall == Len(calls) < budget

Do(c) ==
    /\ qb' = Apply(qb, c)
    /\ calls' = Append(calls, c)
    /\ issued' = IF c.op = "Reset" THEN <<>> ELSE issued \o PlaceholdersFrom(qb, c)
    /\ built' = IF c.op = "Build" THEN Build(qb) ELSE built
    /\ UNCHANGED <<obj, ret, budget, handle, procs, heap>>

DoReset ==
    /\ MayCall
    /\ Do(Call("Reset", EmptyStr, <<>>, <<>>, 0))

DoAddParam ==
    /\ MayCall
    /\ \E v \in ParamValues : Do(Call("AddParam", EmptyStr, <<>>, <<v>>, 0))

DoWrite ==
    /\ MayCall
    /\ \E s \in Texts : Do(Call("Write", s, <<>>, <<>>, 0))

DoWriteWithParams ==
    /\ MayCall
    /\ \E f \in Formats : Do(Call("WriteWithParams", f.format, <<>>, f.args, 0))

DoWriteSelect ==
    /\ MayCall
    /\ \E cols \in ColumnLists : Do(Call("WriteSelect", EmptyStr, cols, <<>>, 0))

DoWriteFrom ==
    /\ MayCall
    /\ \E t \in Tables : Do(Call("WriteFrom", t, <<>>, <<>>, 0))

DoWriteWhere ==
    /\ MayCall
    /\ \E c \in Conditions : Do(Call("WriteWhere", c.format, <<>>, c.args, 0))

DoWriteAnd ==
    /\ MayCall
    /\ \E c \in Conditions : Do(Call("WriteAnd", c.format, <<>>, c.args, 0))

DoWriteOr ==
    /\ MayCall
    /\ \E c \in Conditions : Do(Call("WriteOr", c.format, <<>>, c.args, 0))

DoWriteOrderBy ==
    /\ MayCall
    /\ \E cols \in ColumnLists : Do(Call("WriteOrderBy", EmptyStr, cols, <<>>, 0))

DoWriteLimit ==
    /\ MayCall
    /\ \E n \in Limits : Do(Call("WriteLimit", EmptyStr, <<>>, <<>>, n))

DoWriteOffset ==
    /\ MayCall
    /\ \E n \in Limits : Do(Call("WriteOffset", EmptyStr, <<>>, <<>>, n))

\* columns and values of equal length, as the callers pass them
DoWriteInsert ==
    /\ MayCall
    /\ \E t \in Tables, cols \in ColumnLists, vals \in ValueLists :
           /\ Len(cols) = Len(vals)
           /\ Do(Call("WriteInsert", t, cols, vals, 0))

DoWriteUpdate ==
    /\ MayCall
    /\ \E t \in Tables, cols \in ColumnLists, vals \in ValueLists :
           /\ Len(cols) = Len(vals)
           /\ Do(Call("WriteUpdate", t, cols, vals, 0))

DoWriteDelete ==
    /\ MayCall
    /\ \E t \in Tables : Do(Call("WriteDelete", t, <<>>, <<>>, 0))

DoWriteReturning ==
    /\ MayCall
    /\ \E cols \in ReturningLists : Do(Call("WriteReturning", EmptyStr, cols, <<>>, 0))

DoBuild ==
    /\ MayCall
    /\ Do(Call("Build", EmptyStr, <<>>, <<>>, 0))

NoCall == [op |-> "none"]

Init ==
    /\ obj = [kind |-> "nil", fields |-> <<>>]
    /\ ret = NoCall
    /\ qb = NewQueryBuilder
    /\ calls = <<>>
    /\ issued = <<>>
    /\ built = NoBuild
    /\ budget = MaxOps
    /\ handle = NewPostgresORM
    /\ procs = <<>>
    /\ heap = <<>>

Next ==
    \/ DoReset
    \/ DoAddParam
    \/ DoWrite
    \/ DoWriteWithParams
    \/ DoWriteSelect
    \/ DoWriteFrom
    \/ DoWriteWhere
    \/ DoWriteAnd
    \/ DoWriteOr
    \/ DoWriteOrderBy
    \/ DoWriteLimit
    \/ DoWriteOffset
    \/ DoWriteInsert
    \/ DoWriteUpdate
    \/ DoWriteDelete
    \/ DoWriteReturning
    \/ DoBuild

Spec == Init /\ [][Next]_vars

(***************************************************************************)
(* A SELECT statement built clause by clause on a fresh builder: the same  *)
(* steps, restricted to WriteSelect, WriteFrom, WriteWhere, WriteAnd and   *)
(* WriteOr, with a call budget of their own.                               *)
(***************************************************************************)
InitChain ==
    /\ obj = [kind |-> "nil", fields |-> <<>>]
    /\ ret = NoCall
    /\ qb = NewQueryBuilder
    /\ calls = <<>>
    /\ issued = <<>>
    /\ built = NoBuild
    /\ budget = MaxChain
    /\ handle = NewPostgresORM
    /\ procs = <<>>
    /\ heap = <<>>

NextChain ==
    \/ DoWriteSelect
    \/ DoWriteFrom
    \/ DoWriteWhere
    \/ DoWriteAnd
    \/ DoWriteOr

SpecChain == InitChain /\ [][NextChain]_vars

(***************************************************************************)
(* The reflection calls as steps: a caller hands obj to one of the two     *)
(* functions and keeps what it returns.                                    *)
(***************************************************************************)
InitRecord ==
    /\ obj \in Objects
    /\ ret = NoCall
    /\ qb = NewQueryBuilder
    /\ calls = <<>>
    /\ issued = <<>>
    /\ built = NoBuild
    /\ budget = 0
    /\ handle = NewPostgresORM
    /\ procs = <<>>
    /\ heap = <<>>

CallGetStructFields ==
    /\ ret' = [op |-> "GetStructFields", res |-> GetStructFields(obj)]
    /\ UNCHANGED <<obj, qb, calls, issued, built, budget, handle, procs, heap>>

CallGetPrimaryKeyField ==
    /\ ret' = [op |-> "GetPrimaryKeyField", res |-> GetPrimaryKeyField(obj)]
    /\ UNCHANGED <<obj, qb, calls, issued, built, budget, handle, procs, heap>>

NextRecord == CallGetStructFields \/ CallGetPrimaryKeyField

SpecRecord == InitRecord /\ [][NextRecord]_vars

(***************************************************************************)
(* Properties of GetStructFields and GetPrimaryKeyField (under SpecRecord). *)
(***************************************************************************)
Str_primary == <<"p", "r", "i", "m", "a", "r", "y">>

\* the tag lists "primary" among the options that follow its first comma
HasPrimaryOption(tag) ==
    \E i \in 1..Len(tag) :
        /\ tag[i] = ","
        /\ i + Len(Str_primary) <= Len(tag)
        /\ SubSeq(tag, i + 1, i + Len(Str_primary)) = Str_primary
        /\ \/ i + Len(Str_primary) = Len(tag)
           \/ tag[i + Len(Str_primary) + 1] = ","

\* the column a field is documented to map to: the first segment of its tag,
\* or its lower-cased identifier when it has no tag
DocumentedColumn(field) ==
    IF field.Tag = EmptyStr THEN ToLower(field.Name) ELSE SplitFirst(field.Tag, ",")

\* the field is neither unexported nor excluded by db:"-"
Included(field) == IsExported(field) /\ field.Tag # Str_dash

ReturnedFrom(op) == ret.op = op /\ IsStruct(obj)

\* C1: every exported field with a non-empty db tag other than "-" appears in
\* the mapping of GetStructFields under the first comma-delimited segment of
\* its tag, with its current value (stated for the tags that name a column:
\* a field tagged db:"id,primary" appears under the key "id").
C1_TaggedFieldUnderFirstSegment ==
    ReturnedFrom("GetStructFields") =>
        \A i \in 1..Len(obj.fields) :
            LET f == obj.fields[i]
            IN  (/\ IsExported(f)
                 /\ f.Tag # EmptyStr
                 /\ f.Tag # Str_dash
                 /\ SplitFirst(f.Tag, ",") # EmptyStr) =>
                    /\ SplitFirst(f.Tag, ",") \in DOMAIN ret.res.fields
                    /\ ret.res.fields[SplitFirst(f.Tag, ",")] = f.Val

\* no key of the mapping comes from an excluded or unexported field: the key
\* "-" is absent, and the lower-cased identifier of such a field is a key only
\* when an included field maps to that column
NoEntryForExcluded(fs, m) ==
    /\ Str_dash \notin DOMAIN m
    /\ \A i \in 1..Len(fs) :
           (~Included(fs[i]) /\ ToLower(fs[i].Name) \in DOMAIN m) =>
               \E j \in 1..Len(fs) :
                   Included(fs[j]) /\ DocumentedColumn(fs[j]) = ToLower(fs[i].Name)

\* C2 (as claimed): the mapping has no entry for a db:"-" or unexported field,
\* holds every exported untagged field under its lower-cased identifier with
\* its current value, and has as many keys as there are exported, non-excluded
\* fields.
C2_KeysAreIncludedFields ==
    ReturnedFrom("GetStructFields") =>
        LET fs == obj.fields
            m == ret.res.fields
        IN  /\ NoEntryForExcluded(fs, m)
            /\ \A i \in 1..Len(fs) :
                   (IsExported(fs[i]) /\ fs[i].Tag = EmptyStr) =>
                       /\ ToLower(fs[i].Name) \in DOMAIN m
                       /\ m[ToLower(fs[i].Name)] = fs[i].Val
            /\ Cardinality(DOMAIN m) = Cardinality({i \in 1..Len(fs) : Included(fs[i])})

\* C2 (amended): the mapping has no entry for a db:"-" or unexported field and
\* holds every exported untagged field under its lower-cased identifier, with
\* its current value unless a later-declared included field maps to the same
\* column (whose value then replaces it); it has at most as many keys as
\* there are included fields, and exactly as many when their columns are
\* pairwise distinct.
C2_KeysAreIncludedFieldsUpToCollisions ==
    ReturnedFrom("GetStructFields") =>
        LET fs == obj.fields
            m == ret.res.fields
            inc == {i \in 1..Len(fs) : Included(fs[i])}
        IN  /\ NoEntryForExcluded(fs, m)
            /\ \A i \in 1..Len(fs) :
                   (IsExported(fs[i]) /\ fs[i].Tag = EmptyStr) =>
                       /\ ToLower(fs[i].Name) \in DOMAIN m
                       /\ \E j \in inc :
                              /\ j >= i
                              /\ DocumentedColumn(fs[j]) = ToLower(fs[i].Name)
                              /\ m[ToLower(fs[i].Name)] = fs[j].Val
                       /\ (\A j \in inc :
                               j > i => DocumentedColumn(fs[j]) # ToLower(fs[i].Name))
                              => m[ToLower(fs[i].Name)] = fs[i].Val
            /\ Cardinality(DOMAIN m) <= Cardinality(inc)
            /\ (\A i, j \in inc :
                    i # j => DocumentedColumn(fs[i]) # DocumentedColumn(fs[j]))
                   => Cardinality(DOMAIN m) = Cardinality(inc)

\* a struct with an excluded field and an exported untagged field went through
\* GetStructFields
C2_Witness ==
    /\ ReturnedFrom("GetStructFields")
    /\ Len(obj.fields) = 2
    /\ obj.fields[1].Tag = Str_dash /\ IsExported(obj.fields[1])
    /\ obj.fields[2].Tag = EmptyStr /\ IsExported(obj.fields[2])
    /\ DOMAIN ret.res.fields = {ToLower(obj.fields[2].Name)}

\* the first declared field whose tag carries the primary option
FirstPrimary(fs) ==
    CHOOSE i \in 1..Len(fs) :
        /\ HasPrimaryOption(fs[i].Tag)
        /\ \A j \in 1..(i - 1) : ~HasPrimaryOption(fs[j].Tag)

HasPrimaryField(fs) == \E i \in 1..Len(fs) : HasPrimaryOption(fs[i].Tag)

\* the first declared field named "id" in any letter case
FirstIdNamed(fs) ==
    CHOOSE i \in 1..Len(fs) :
        /\ ToLower(fs[i].Name) = Str_id
        /\ \A j \in 1..(i - 1) : ToLower(fs[j].Name) # Str_id

HasIdNamedField(fs) == \E i \in 1..Len(fs) : ToLower(fs[i].Name) = Str_id

FallbackColumn(field) ==
    IF field.Tag = EmptyStr \/ field.Tag = Str_dash
    THEN Str_id
    ELSE SplitFirst(field.Tag, ",")

\* C4: without a primary-tagged field, GetPrimaryKeyField returns the current
\* value of the field named "id" (any letter case) and its column: the first
\* comma-delimited tag segment, or "id" for an empty or excluded tag (stated
\* for an exported field, whose value can be read).
C4_IdNameFallback ==
    (/\ ReturnedFrom("GetPrimaryKeyField")
     /\ ~HasPrimaryField(obj.fields)
     /\ HasIdNamedField(obj.fields)
     /\ IsExported(obj.fields[FirstIdNamed(obj.fields)])) =>
        LET f == obj.fields[FirstIdNamed(obj.fields)]
        IN  /\ ret.res.err = NoErr
            /\ ret.res.name = FallbackColumn(f)
            /\ ret.res.value = f.Val

\* C5: for a struct with neither a primary-tagged field nor a field named
\* "id" (any letter case), GetPrimaryKeyField returns an error, the empty
\* column name and the nil value.
C5_NoIdentityIsError ==
    (/\ ReturnedFrom("GetPrimaryKeyField")
     /\ ~HasPrimaryField(obj.fields)
     /\ ~HasIdNamedField(obj.fields)) =>
        /\ ret.res.err # NoErr
        /\ ret.res.name = EmptyStr
        /\ ret.res.value = Nil

\* a struct with two fields, none of them an identity, was refused
C5_Witness ==
    /\ ReturnedFrom("GetPrimaryKeyField")
    /\ Len(obj.fields) = 2
    /\ ~HasPrimaryField(obj.fields)
    /\ ~HasIdNamedField(obj.fields)
    /\ ret.res.err = ErrNoPrimaryKey

(***************************************************************************)
(* Properties of the QueryBuilder (under Spec and SpecChain).              *)
(***************************************************************************)
\* the placeholder "$k", k < 100
ExpectedPlaceholder(k) ==
    IF k < 10 THEN <<"$", DigitChars[k + 1]>>
    ELSE <<"$", DigitChars[(k \div 10) + 1], DigitChars[(k % 10) + 1]>>

IsResetAt(i) == calls[i].op = "Reset"

\* the position of the last Reset in the history, 0 when there is none
LastReset ==
    IF \E i \in 1..Len(calls) : IsResetAt(i)
    THEN CHOOSE i \in 1..Len(calls) :
             IsResetAt(i) /\ \A j \in (i + 1)..Len(calls) : ~IsResetAt(j)
    ELSE 0

SinceReset == SubSeq(calls, LastReset + 1, Len(calls))

\* the values one call binds, in order
ValuesOf(c) ==
    IF c.op \in {"AddParam", "WriteWithParams", "WriteWhere", "WriteAnd", "WriteOr",
                 "WriteInsert"}
    THEN c.vals
    ELSE IF c.op = "WriteUpdate" THEN SubSeq(c.vals, 1, Len(c.strs))
    ELSE <<>>

RECURSIVE ValuesOfAll(_)
ValuesOfAll(cs) ==
    IF Len(cs) = 0 THEN <<>> ELSE ValuesOf(Head(cs)) \o ValuesOfAll(Tail(cs))

\* C6: with no Reset in between, the k-th value bound received the
\* placeholder "$k" and is the k-th argument; the counter is always the number
\* of bound arguments plus one.
C6_PlaceholderNumbering ==
    /\ qb.paramIndex = Len(qb.args) + 1
    /\ qb.args = ValuesOfAll(SinceReset)
    /\ Len(issued) = Len(qb.args)
    /\ \A k \in 1..Len(issued) : issued[k] = ExpectedPlaceholder(k)

\* three values were bound by two different calls, the last as "$3"
C6_Witness ==
    /\ LastReset = 0
    /\ Len(calls) = 2
    /\ calls[1].op = "WriteUpdate" /\ Len(calls[1].vals) = 2
    /\ calls[2].op = "WriteWhere" /\ Len(calls[2].vals) = 1
    /\ issued = <<ExpectedPlaceholder(1), ExpectedPlaceholder(2), ExpectedPlaceholder(3)>>
    /\ qb.args[3] = calls[2].vals[1]

RECURSIVE NumVerbsFrom(_, _)
\* the number of %s verbs of a template
NumVerbsFrom(t, i) ==
    IF i >= Len(t) THEN 0
    ELSE IF t[i] = "%" /\ t[i + 1] = "s" THEN 1 + NumVerbsFrom(t, i + 2)
    ELSE NumVerbsFrom(t, i + 1)

NumVerbs(t) == NumVerbsFrom(t, 1)

RECURSIVE NumberedFrom(_, _, _)
\* template t from position i, its %s verbs replaced left to right by the
\* placeholders numbered k, k + 1, ...
NumberedFrom(t, i, k) ==
    IF i > Len(t) THEN <<>>
    ELSE IF i < Len(t) /\ t[i] = "%" /\ t[i + 1] = "s"
    THEN ExpectedPlaceholder(k) \o NumberedFrom(t, i + 2, k + 1)
    ELSE <<t[i]>> \o NumberedFrom(t, i + 1, k)

Numbered(t, k) == NumberedFrom(t, 1, k)

Txt_SELECT == <<"S", "E", "L", "E", "C", "T", " ">>
Txt_FROM == <<" ", "F", "R", "O", "M", " ">>
Txt_WHERE == <<" ", "W", "H", "E", "R", "E", " ">>
Txt_AND == <<" ", "A", "N", "D", " ">>
Txt_OR == <<" ", "O", "R", " ">>
Txt_INSERT_INTO == <<"I", "N", "S", "E", "R", "T", " ", "I", "N", "T", "O", " ">>
Txt_VALUES == <<")", " ", "V", "A", "L", "U", "E", "S", " ", "(">>
Txt_UPDATE == <<"U", "P", "D", "A", "T", "E", " ">>
Txt_SET == <<" ", "S", "E", "T", " ">>
Txt_RETURNING == <<" ", "R", "E", "T", "U", "R", "N", "I", "N", "G", " ">>

RECURSIVE JoinWithComma(_)
JoinWithComma(ss) ==
    IF Len(ss) = 0 THEN <<>>
    ELSE IF Len(ss) = 1 THEN ss[1]
    ELSE ss[1] \o <<",", " ">> \o JoinWithComma(Tail(ss))

ClauseKeyword(op) ==
    CASE op = "WriteWhere" -> Txt_WHERE
      [] op = "WriteAnd" -> Txt_AND
      [] op = "WriteOr" -> Txt_OR

RECURSIVE ExpectedClauses(_, _, _)
\* the text of the clauses cs[i], cs[i+1], ..., the next placeholder being $k
ExpectedClauses(cs, i, k) ==
    IF i > Len(cs) THEN <<>>
    ELSE ClauseKeyword(cs[i].op) \o Numbered(cs[i].text, k)
         \o ExpectedClauses(cs, i + 1, k + Len(cs[i].vals))

\* WriteSelect, WriteFrom, then only WriteWhere/WriteAnd/WriteOr, each with as
\* many arguments as its template has %s verbs
IsSelectChain(cs) ==
    /\ Len(cs) >= 2
    /\ cs[1].op = "WriteSelect"
    /\ cs[2].op = "WriteFrom"
    /\ \A i \in 3..Len(cs) :
           /\ cs[i].op \in {"WriteWhere", "WriteAnd", "WriteOr"}
           /\ NumVerbs(cs[i].text) = Len(cs[i].vals)

\* what C7 says the chain cs builds
SelectChainBuilds(cs) ==
    /\ qb.query =
           Txt_SELECT
           \o (IF Len(cs[1].strs) = 0 THEN <<"*">> ELSE JoinWithComma(cs[1].strs))
           \o Txt_FROM \o cs[2].text
           \o ExpectedClauses(cs, 3, 1)
    /\ qb.args = ValuesOfAll(SubSeq(cs, 3, Len(cs)))

\* C7 (as claimed): on a fresh builder WriteSelect(cols).WriteFrom(t) and then
\* any clauses, each with n %s verbs and n arguments, build
\* "SELECT <cols or *> FROM t" followed, clause by clause, by the keyword and
\* the template with its %s verbs replaced left to right by consecutively
\* numbered placeholders; the arguments are the clauses' arguments in call
\* order.
C7_SelectChainText == IsSelectChain(calls) => SelectChainBuilds(calls)

\* every percent sign of the template starts a %s verb
OnlyStringVerbs(t) ==
    \A i \in 1..Len(t) : t[i] = "%" => (i < Len(t) /\ t[i + 1] = "s")

\* C7 (amended): as claimed, for templates whose only percent signs are those
\* of their %s verbs.
C7_SelectChainTextPlainTemplates ==
    (/\ IsSelectChain(calls)
     /\ \A i \in 3..Len(calls) : OnlyStringVerbs(calls[i].text)) =>
        SelectChainBuilds(calls)

\* SELECT n, e FROM t WHERE a = $1 AND a = $2 AND b = $3
C7_Witness ==
    /\ IsSelectChain(calls)
    /\ \A i \in 3..Len(calls) : OnlyStringVerbs(calls[i].text)
    /\ Len(calls) = 4
    /\ calls[3].op = "WriteWhere" /\ Len(calls[3].vals) = 1
    /\ calls[4].op = "WriteAnd" /\ Len(calls[4].vals) = 2
    /\ qb.query =
           <<"S", "E", "L", "E", "C", "T", " ", "n", ",", " ", "e", " ", "F", "R", "O",
             "M", " ", "t", " ", "W", "H", "E", "R", "E", " ", "a", " ", "=", " ", "$",
             "1", " ", "A", "N", "D", " ", "a", " ", "=", " ", "$", "2", " ", "A", "N",
             "D", " ", "b", " ", "=", " ", "$", "3">>
    /\ qb.args = <<IntVal(7), IntVal(1), StrVal(1)>>

\* the call a step makes
StepCall == calls'[Len(calls')]

IsCallStep == Len(calls') = Len(calls) + 1

\* C8: WriteInsert(t, cols, vals) with lists of equal length, the counter
\* being k, appends "INSERT INTO t (c1, ..., cn) VALUES ($k, ..., $k+n-1)" and
\* binds vals in order; a WriteReturning with columns that follows it appends
\* " RETURNING r1, ..., rm" and binds nothing.
C8_InsertStep ==
    IsCallStep =>
        /\ (StepCall.op = "WriteInsert" /\ Len(StepCall.strs) = Len(StepCall.vals)) =>
               /\ qb'.query =
                      qb.query \o Txt_INSERT_INTO \o StepCall.text \o <<" ", "(">>
                      \o JoinWithComma(StepCall.strs) \o Txt_VALUES
                      \o JoinWithComma([i \in 1..Len(StepCall.vals) |->
                                            ExpectedPlaceholder(qb.paramIndex + i - 1)])
                      \o <<")">>
               /\ qb'.args = qb.args \o StepCall.vals
        /\ (/\ StepCall.op = "WriteReturning"
            /\ Len(StepCall.strs) >= 1
            /\ Len(calls) >= 1
            /\ calls[Len(calls)].op = "WriteInsert") =>
               /\ qb'.query = qb.query \o Txt_RETURNING \o JoinWithComma(StepCall.strs)
               /\ qb'.args = qb.args
               /\ qb'.paramIndex = qb.paramIndex

C8_InsertThenReturning == [][C8_InsertStep]_vars

\* INSERT INTO t (n, e) VALUES ($2, $3) RETURNING id, after one AddParam
C8_Witness ==
    /\ Len(calls) = 3
    /\ calls[1].op = "AddParam"
    /\ calls[2].op = "WriteInsert" /\ Len(calls[2].vals) = 2
    /\ calls[3].op = "WriteReturning" /\ Len(calls[3].strs) = 1
    /\ qb.query =
           <<"I", "N", "S", "E", "R", "T", " ", "I", "N", "T", "O", " ", "t", " ", "(",
             "n", ",", " ", "e", ")", " ", "V", "A", "L", "U", "E", "S", " ", "(", "$",
             "2", ",", " ", "$", "3", ")", " ", "R", "E", "T", "U", "R", "N", "I", "N",
             "G", " ", "i", "d">>
    /\ qb.args = calls[1].vals \o calls[2].vals

\* "UPDATE t SET c1 = $1, ..., cn = $n" for the n pairs of call c
ExpectedUpdate(c) ==
    Txt_UPDATE \o c.text \o Txt_SET
    \o JoinWithComma([i \in 1..Len(c.strs) |->
                          c.strs[i] \o <<" ", "=", " ">> \o ExpectedPlaceholder(i)])

\* C9: on a fresh builder WriteUpdate(t, cols, vals) with n pairs emits
\* "UPDATE t SET c1 = $1, ..., cn = $n" binding vals in order, and a following
\* WriteWhere with one argument receives $n+1 (which replaces the verb of a
\* one-verb template): the arguments are vals followed by the WHERE argument.
C9_UpdateThenWhere ==
    (/\ Len(calls) >= 1
     /\ calls[1].op = "WriteUpdate"
     /\ Len(calls[1].strs) = Len(calls[1].vals)) =>
        /\ Len(calls) = 1 =>
               /\ qb.query = ExpectedUpdate(calls[1])
               /\ qb.args = calls[1].vals
        /\ (/\ Len(calls) = 2
            /\ calls[2].op = "WriteWhere"
            /\ Len(calls[2].vals) = 1) =>
               /\ issued[Len(calls[1].strs) + 1]
                      = ExpectedPlaceholder(Len(calls[1].strs) + 1)
               /\ qb.args = calls[1].vals \o calls[2].vals
               /\ (NumVerbs(calls[2].text) = 1 /\ OnlyStringVerbs(calls[2].text)) =>
                      qb.query =
                          ExpectedUpdate(calls[1]) \o Txt_WHERE
                          \o Numbered(calls[2].text, Len(calls[1].strs) + 1)

\* UPDATE t SET n = $1, e = $2 WHERE a = $3
C9_Witness ==
    /\ Len(calls) = 2
    /\ calls[1].op = "WriteUpdate"
    /\ calls[2].op = "WriteWhere"
    /\ qb.query =
           <<"U", "P", "D", "A", "T", "E", " ", "t", " ", "S", "E", "T", " ", "n", " ",
             "=", " ", "$", "1", ",", " ", "e", " ", "=", " ", "$", "2", " ", "W", "H",
             "E", "R", "E", " ", "a", " ", "=", " ", "$", "3">>
    /\ qb.args = <<StrVal(1), StrVal(2), IntVal(7)>>

RECURSIVE Replay(_, _)
\* the builder after the calls cs made in order on builder b
Replay(b, cs) ==
    IF Len(cs) = 0 THEN b ELSE Replay(Apply(b, Head(cs)), Tail(cs))

\* C10: after Reset, whatever preceded it, the text and the arguments are
\* empty (also as Build returns them) and the next parameter is $1: the
\* builder is the one a fresh builder becomes under the calls made since.
C10_ResetIsFresh ==
    LastReset > 0 =>
        /\ qb = Replay(NewQueryBuilder, SinceReset)
        /\ IsResetAt(Len(calls)) =>
               /\ qb.query = EmptyStr
               /\ qb.args = <<>>
               /\ qb.paramIndex = 1
        /\ Len(issued) > 0 => issued[1] = ExpectedPlaceholder(1)
        /\ (/\ calls[Len(calls)].op = "Build"
            /\ LastReset = Len(calls) - 1) =>
               /\ built.text = EmptyStr
               /\ built.args = <<>>

\* values were bound, Reset was called, and the next value bound got "$1"
C10_Witness ==
    /\ Len(calls) = 3
    /\ Len(ValuesOf(calls[1])) > 0
    /\ IsResetAt(2)
    /\ calls[3].op = "WriteWhere"
    /\ issued = <<ExpectedPlaceholder(1)>>
    /\ qb.args = calls[3].vals

Txt_ORDER_BY == <<" ", "O", "R", "D", "E", "R", " ", "B", "Y", " ">>
Txt_LIMIT == <<" ", "L", "I", "M", "I", "T", " ">>
Txt_OFFSET == <<" ", "O", "F", "F", "S", "E", "T", " ">>

\* what a call of one of the four optional clauses is expected to append:
\* nothing without columns or with n <= 0
ExpectedOptionalClause(c) ==
    CASE c.op = "WriteOrderBy" ->
             IF Len(c.strs) = 0 THEN EmptyStr
             ELSE Txt_ORDER_BY \o JoinWithComma(c.strs)
      [] c.op = "WriteReturning" ->
             IF Len(c.strs) = 0 THEN EmptyStr
             ELSE Txt_RETURNING \o JoinWithComma(c.strs)
      [] c.op = "WriteLimit" ->
             IF c.n <= 0 THEN EmptyStr ELSE Txt_LIMIT \o Tail(ExpectedPlaceholder(c.n))
      [] c.op = "WriteOffset" ->
             IF c.n <= 0 THEN EmptyStr ELSE Txt_OFFSET \o Tail(ExpectedPlaceholder(c.n))

C20_OptionalClauseStep ==
    (/\ IsCallStep
     /\ StepCall.op \in {"WriteOrderBy", "WriteReturning", "WriteLimit", "WriteOffset"}) =>
        /\ qb'.query = qb.query \o ExpectedOptionalClause(StepCall)
        /\ qb'.args = qb.args
        /\ qb'.paramIndex = qb.paramIndex

\* C20: WriteOrderBy and WriteReturning without columns, WriteLimit and
\* WriteOffset with n <= 0, leave text, arguments and counter as they were;
\* with columns, respectively n > 0, they append exactly " ORDER BY <cols>",
\* " RETURNING <cols>", " LIMIT n", " OFFSET n" and bind no argument.
C20_OptionalClauses == [][C20_OptionalClauseStep]_vars

\* after a value was bound, WriteLimit(0) left the builder as it was and
\* WriteOffset(10) then appended " OFFSET 10"
C20_Witness ==
    /\ Len(calls) = 3
    /\ calls[1].op = "WriteWhere"
    /\ calls[2].op = "WriteLimit" /\ calls[2].n <= 0
    /\ calls[3].op = "WriteOffset" /\ calls[3].n > 0
    /\ qb.query = Apply(NewQueryBuilder, calls[1]).query
                  \o Txt_OFFSET \o <<"1", "0">>
    /\ qb.paramIndex = 2

(***************************************************************************)
(* Typed values.  The declared type of a field is the type of the value it *)
(* holds.  The v of a string names its text: 0 is the empty string, small  *)
(* numbers are texts that are not numerals, RuneBase + n is the            *)
(* one-character string of code point n and DecimalBase + n is the decimal *)
(* numeral of n.                                                           *)
(***************************************************************************)
RuneBase == 1000
DecimalBase == 2000

Int64Val(n) == [type |-> "int64", v |-> n]

FieldType(field) == field.Val.type

\* reflect.Zero of a type
ZeroOf(type) == [type |-> type, v |-> 0]

\* reflect.Value.IsZero
IsZero(value) == value.v = 0

IntegerTypes == {"int", "int64"}

\* reflect.Type.ConvertibleTo: integers convert to integers and to string
\* (the string of one code point); a string converts to no integer type
ConvertibleTo(from, to) ==
    \/ from = to
    \/ from \in IntegerTypes /\ to \in IntegerTypes \cup {"string"}

\* reflect.Value.Convert
Convert(value, to) ==
    IF to = "string" /\ value.type \in IntegerTypes
    THEN [type |-> "string", v |-> RuneBase + value.v]
    ELSE [type |-> to, v |-> value.v]

(***************************************************************************)
(* SetStructField                                                          *)
(***************************************************************************)
ErrNotPointer == "objeto deve ser um ponteiro nao-nil"
ErrCannotSet == "campo nao pode ser definido"
ErrTypeMismatch == "tipo de valor incompativel com o tipo do campo"
ErrFieldNotFound == "campo nao encontrado"
\* a run-time panic of package reflect
Panic == "panic"

\* reflect.Value.CanSet: addressable and not reached through an unexported field
CanSet(field) == IsExported(field)

\* tag == fieldName || (tag == "" && strings.ToLower(fieldType.Name) == fieldName)
FieldMatches(field, fieldName) ==
    \/ field.Tag = fieldName
    \/ (field.Tag = EmptyStr /\ ToLower(field.Name) = fieldName)

\* a variant of SetMatchedField that stores the value without converting it
SetMatchedFieldUnconverted(o, i, value) ==
    LET field == o.fields[i]
    IN  IF ~CanSet(field) THEN [obj |-> o, err |-> ErrCannotSet]
        ELSE IF value = Nil THEN [obj |-> o, err |-> Panic]
        ELSE [obj |-> [o EXCEPT !.fields[i].Val = value], err |-> NoErr]

\* the body of the loop for the field that matches; reflect.ValueOf(nil) is
\* the zero Value, whose Type() panics
SetMatchedField(o, i, value) ==
    LET field == o.fields[i]
    IN  IF ~CanSet(field) THEN [obj |-> o, err |-> ErrCannotSet]
        ELSE IF value = Nil THEN [obj |-> o, err |-> Panic]
        ELSE IF FieldType(field) # value.type
        THEN IF ConvertibleTo(value.type, FieldType(field))
             THEN [obj |-> [o EXCEPT !.fields[i].Val = Convert(value, FieldType(field))],
                   err |-> NoErr]
             ELSE [obj |-> o, err |-> ErrTypeMismatch]
        ELSE [obj |-> [o EXCEPT !.fields[i].Val = value], err |-> NoErr]

RECURSIVE SetLoop(_, _, _, _)
SetLoop(o, i, fieldName, value) ==
    IF i > Len(o.fields) THEN [obj |-> o, err |-> ErrFieldNotFound]
    ELSE IF FieldMatches(o.fields[i], fieldName)
    THEN SetMatchedField(o, i, value)
    ELSE SetLoop(o, i + 1, fieldName, value)

\* returns the object after the call and the error
SetStructField(o, fieldName, value) ==
    IF o.kind = "nil" THEN [obj |-> o, err |-> ErrNilObject]
    ELSE IF o.kind # "ptr" THEN [obj |-> o, err |-> ErrNotPointer]
    ELSE SetLoop(o, 1, fieldName, value)

(***************************************************************************)
(* GetTagName                                                              *)
(***************************************************************************)
\* the first segment of the db tag of the field named fieldName, "" when the
\* field has no tag
GetTagName(fs, fieldName) ==
    IF \E i \in 1..Len(fs) : fs[i].Name = fieldName
    THEN LET field == fs[CHOOSE i \in 1..Len(fs) : fs[i].Name = fieldName]
         IN  IF field.Tag = EmptyStr THEN EmptyStr ELSE SplitFirst(field.Tag, ",")
    ELSE EmptyStr

\* strings.EqualFold
EqualFold(s, t) == ToLower(s) = ToLower(t)

(***************************************************************************)
(* The records handed to the ORM: pointers to structs that implement       *)
(* core.Model (TableName) and, when pk is TRUE, core.ModelWithPrimaryKey   *)
(* with PrimaryKey() returning "id" and PrimaryKeyValue() returning the    *)
(* field ID, as the repository's examples define them.                     *)
(***************************************************************************)
Str_name == <<"n", "a", "m", "e">>
Str_notag == <<"n", "o", "t", "a", "g">>
Name_ID == <<"I", "D">>
Name_Name == <<"N", "a", "m", "e">>
Name_NoTag == <<"N", "o", "T", "a", "g">>

OrmFields ==
    [Name : {Name_ID},
     Tag : {EmptyStr, Str_id, Str_id \o Str_comma_primary},
     Val : {IntVal(0), IntVal(5)}]
    \cup [Name : {Name_ID}, Tag : {Str_id}, Val : {StrVal(0), StrVal(1)}]
    \cup [Name : {Name_Name}, Tag : {Str_name, Str_dash, Str_notag}, Val : {IntVal(7)}]
    \cup { [Name |-> Name_Name, Tag |-> Str_name, Val |-> StrVal(1)],
           [Name |-> Name_NoTag, Tag |-> EmptyStr, Val |-> IntVal(3)],
           [Name |-> Str_name, Tag |-> EmptyStr, Val |-> IntVal(4)] }

OrmStructs ==
    { <<f>> : f \in OrmFields }
    \cup { p \in [1..2 -> OrmFields] : p[1].Name # p[2].Name }

HasIDField(fs) == \E i \in 1..Len(fs) : fs[i].Name = Name_ID

OrmModels ==
    { o \in [kind : {"ptr"}, fields : OrmStructs, pk : BOOLEAN] :
          o.pk => HasIDField(o.fields) }

\* what SetStructField may also be handed: nil and a struct passed by value
SetObjects ==
    OrmModels
    \cup { [kind |-> "nil", fields |-> <<>>, pk |-> FALSE] }
    \cup { [kind |-> "struct", fields |-> <<f>>, pk |-> FALSE] :
               f \in { g \in OrmFields : g.Name = Name_NoTag } }

OrmTable == <<"t">>

\* func (u *User) PrimaryKey() string { return "id" }
PrimaryKey(o) == Str_id

\* func (u *User) PrimaryKeyValue() interface{} { return u.ID }
PrimaryKeyValue(o) ==
    o.fields[CHOOSE i \in 1..Len(o.fields) : o.fields[i].Name = Name_ID].Val

\* the orders in which "for column := range fields" may enumerate the keys
KeyOrders(S) ==
    { p \in [1..Cardinality(S) -> S] : \A i, j \in 1..Cardinality(S) : i # j => p[i] # p[j] }

(***************************************************************************)
(* The backend (database/sql over PostgreSQL), as far as the ORM sees it.  *)
(***************************************************************************)
MaxRows == 2

AffectedCounts == {0, 1, 2}

\* an integer from a sequence, a text such as a UUID
GeneratedIDs == { IntVal(42), StrVal(4) }

BackendErrors ==
    { [kind |-> k, n |-> 0, id |-> Nil] : k \in {"error", "duplicate"} }

\* outcomes of ExecContext followed by RowsAffected
ExecOutcomes ==
    BackendErrors
    \cup { [kind |-> "rowsAffectedError", n |-> 0, id |-> Nil] }
    \cup { [kind |-> "ok", n |-> n, id |-> Nil] : n \in AffectedCounts }

\* outcomes of the INSERT: an error, or one row inserted with the identity
\* the backend generates when the statement supplies none
InsertOutcomes ==
    BackendErrors \cup { [kind |-> "ok", n |-> 1, id |-> g] : g \in GeneratedIDs }

\* the identity the table generates is of the type of the record's field ID
InsertOutcomesFor(o) ==
    { be \in InsertOutcomes :
          (be.kind = "ok" /\ HasIDField(o.fields)) => be.id.type = PrimaryKeyValue(o).type }

\* PostgreSQL executes a statement only if its column list names columns: it
\* is not empty and no entry holds a comma (which would make two target
\* columns of one value)
WellFormedColumns(columns) ==
    /\ Len(columns) > 0
    /\ \A i \in 1..Len(columns) : ~Contains(columns[i], <<",">>)

ExecContext(columns, be) ==
    IF be.kind = "ok" /\ ~WellFormedColumns(columns)
    THEN [kind |-> "error", n |-> 0, id |-> Nil]
    ELSE be

\* database/sql convertAssign into a destination of the given type
CanScan(value, type) ==
    \/ value.type = type
    \/ value.type \in IntegerTypes
    \/ (value.type = "string" /\ type \in IntegerTypes /\ value.v >= DecimalBase)

ScanConvert(value, type) ==
    IF value.type = type THEN value
    ELSE IF value.type \in IntegerTypes /\ type = "string"
    THEN [type |-> "string", v |-> DecimalBase + value.v]
    ELSE IF value.type = "string"
    THEN [type |-> type, v |-> value.v - DecimalBase]
    ELSE [type |-> type, v |-> value.v]

ResultColumns == { Str_id, Str_name, Str_notag }

ColumnSeqs ==
    { <<c>> : c \in ResultColumns }
    \cup { p \in [1..2 -> ResultColumns] : p[1] # p[2] }

\* the values a result column may hold
ColumnValues(c) ==
    IF c = Str_id THEN { IntVal(11) }
    ELSE IF c = Str_name THEN { IntVal(12), StrVal(3) }
    ELSE { IntVal(13) }

RowsOf(columns) ==
    { r \in [1..Len(columns) -> { IntVal(11), IntVal(12), IntVal(13), StrVal(3) }] :
          \A i \in 1..Len(columns) : r[i] \in ColumnValues(columns[i]) }

\* outcomes of QueryRowContext: an error, no row, or one row
RowOutcomes ==
    { [kind |-> k, columns |-> <<>>, rows |-> <<>>] : k \in {"error", "noRows"} }
    \cup UNION { { [kind |-> "ok", columns |-> cs, rows |-> <<r>>] : r \in RowsOf(cs) } :
                     cs \in ColumnSeqs }

\* outcomes of QueryContext: an error, or a result set of up to MaxRows rows,
\* whose iteration may end with an error
ResultSets ==
    { [kind |-> "error", columns |-> <<>>, rows |-> <<>>] }
    \cup UNION { { [kind |-> k, columns |-> cs, rows |-> rs] :
                       k \in {"ok", "rowsError"},
                       rs \in UNION { [1..n -> RowsOf(cs)] : n \in 0..MaxRows } } :
                     cs \in ColumnSeqs }

(***************************************************************************)
(* The ORM operations.  Each is an operator from the record, the state of  *)
(* the connection and what the runtime and the backend answer (the order   *)
(* of a map range, the outcome of the statement) to what the operation     *)
(* returns: its error, the statement it built, the backend call it made,   *)
(* the caller's record afterwards and the destination slice afterwards.    *)
(***************************************************************************)
ErrNotConnected == "connection not established"
ErrStructFields == "error retrieving struct fields"
ErrAlreadyExists == "record already exists"
ErrInsert == "error inserting record"
ErrSetPrimaryKey == "error setting primary key value"
ErrDestNotPointer == "destination must be a non-nil pointer to a slice"
ErrDestNotSlice == "destination must be a pointer to a slice"
ErrQuery == "error executing query"
ErrNotFound == "record not found"
ErrScan == "error scanning values"
ErrSetField == "error setting value for field"
ErrIterate == "error iterating over results"
ErrUpdate == "error updating record"
ErrDelete == "error deleting record"
ErrRowsAffected == "error retrieving affected rows count"
ErrNoneUpdated == "no records were updated"
ErrNoneDeleted == "no records were deleted"

\* out is how the backend call ended: "none" when none was made
OrmResult(err, b, call, out, o, dest) ==
    [err |-> err, query |-> b.query, args |-> b.args, call |-> call, out |-> out,
     obj |-> o, dest |-> dest]

\* values = append(values, value) for each column kept
ValuesOfColumns(fields, columns) == [i \in 1..Len(columns) |-> fields[columns[i]]]

\* the error Create makes of a failed statement
InsertError(out) == IF out.kind = "duplicate" THEN ErrAlreadyExists ELSE ErrInsert

\* what RETURNING <primaryKey> yields: the value the statement supplied for
\* that column, otherwise the identity the backend generated
ReturnedID(columns, values, primaryKey, out) ==
    IF \E i \in 1..Len(columns) : columns[i] = primaryKey
    THEN values[CHOOSE i \in 1..Len(columns) : columns[i] = primaryKey]
    ELSE out.id

\* a variant of KeepsColumn that keeps every column
KeepsEveryColumn(column, primaryKey, primaryKeyValue) == TRUE

\* if column == primaryKey && reflect.ValueOf(primaryKeyValue).IsZero() { continue }
KeepsColumn(column, primaryKey, primaryKeyValue) ==
    ~(column = primaryKey /\ IsZero(primaryKeyValue))

\* PostgresORM.Create as the file with the English messages has it: it
\* omits a zero primary key and reads the generated one back
PostgresORM_Create(o, connected, order, be) ==
    IF ~connected THEN OrmResult(ErrNotConnected, NewQueryBuilder, "none", "none", o, <<>>)
    ELSE IF GetStructFields(o).err # NoErr
    THEN OrmResult(ErrStructFields, NewQueryBuilder, "none", "none", o, <<>>)
    ELSE
    LET fields == GetStructFields(o).fields
        primaryKey == IF o.pk THEN PrimaryKey(o) ELSE EmptyStr
        primaryKeyValue == IF o.pk THEN PrimaryKeyValue(o) ELSE Nil
        columns == SelectSeq(order,
                             LAMBDA column : KeepsColumn(column, primaryKey, primaryKeyValue))
        values == ValuesOfColumns(fields, columns)
        inserted == WriteInsert(NewQueryBuilder, OrmTable, columns, values)
        b == IF primaryKey # EmptyStr
             THEN WriteReturning(inserted, <<primaryKey>>)
             ELSE inserted
        call == IF primaryKey # EmptyStr THEN "queryrow" ELSE "exec"
        out == ExecContext(columns, be)
        returned == ReturnedID(columns, values, primaryKey, out)
    IN  IF out.kind # "ok" THEN OrmResult(InsertError(out), b, call, out.kind, o, <<>>)
        ELSE IF primaryKey = EmptyStr THEN OrmResult(NoErr, b, call, out.kind, o, <<>>)
        ELSE IF ~CanScan(returned, "int") THEN OrmResult(ErrInsert, b, call, out.kind, o, <<>>)
        ELSE LET generatedID == ScanConvert(returned, "int")
                 set == SetStructField(o, primaryKey, generatedID)
             IN  IF set.err # NoErr
                 THEN OrmResult(ErrSetPrimaryKey, b, call, out.kind, set.obj, <<>>)
                 ELSE OrmResult(NoErr, b, call, out.kind, set.obj, <<>>)

\* the INSERT of every mapped field, executed with ExecContext
InsertAllFields(o, order, be) ==
    IF GetStructFields(o).err # NoErr
    THEN OrmResult(ErrStructFields, NewQueryBuilder, "none", "none", o, <<>>)
    ELSE
    LET fields == GetStructFields(o).fields
        values == ValuesOfColumns(fields, order)
        b == WriteInsert(NewQueryBuilder, OrmTable, order, values)
        out == ExecContext(order, be)
    IN  IF out.kind # "ok" THEN OrmResult(InsertError(out), b, "exec", out.kind, o, <<>>)
        ELSE OrmResult(NoErr, b, "exec", out.kind, o, <<>>)

\* PostgresORM.Create as pkg/postgres/postgres.go has it
PkgPostgresORM_Create(o, connected, order, be) ==
    IF ~connected THEN OrmResult(ErrNotConnected, NewQueryBuilder, "none", "none", o, <<>>)
    ELSE InsertAllFields(o, order, be)

PostgresTransaction_Create(o, order, be) == InsertAllFields(o, order, be)

\* qb.WriteX(...).WriteWhere(fmt.Sprintf("%s = %s", primaryKey, qb.AddParam(value))):
\* the receiver is evaluated before the argument
WherePrimaryKey(b, primaryKey, value) ==
    LET p == AddParam(b, value)
    IN  WriteWhere(p.qb, Sprintf(Lit_eq, <<primaryKey, p.placeholder>>), <<>>)

\* a variant of AffectedError that takes zero affected rows for success
AffectedErrorNever(out, errExec, errNone) ==
    IF out.kind \in {"error", "duplicate"} THEN errExec
    ELSE IF out.kind = "rowsAffectedError" THEN ErrRowsAffected
    ELSE NoErr

\* the error Update and Delete make of the outcome of their statement
AffectedError(out, errExec, errNone) ==
    IF out.kind \in {"error", "duplicate"} THEN errExec
    ELSE IF out.kind = "rowsAffectedError" THEN ErrRowsAffected
    ELSE IF out.n = 0 THEN errNone
    ELSE NoErr

\* delete(fields, primaryKey)
MapDelete(m, k) == [x \in DOMAIN m \ {k} |-> m[x]]

\* order enumerates the keys left after the primary key is deleted
PostgresTransaction_Update(o, order, be) ==
    IF GetStructFields(o).err # NoErr
    THEN OrmResult(ErrStructFields, NewQueryBuilder, "none", "none", o, <<>>)
    ELSE
    LET fields == MapDelete(GetStructFields(o).fields, PrimaryKey(o))
        values == ValuesOfColumns(fields, order)
        updated == WriteUpdate(NewQueryBuilder, OrmTable, order, values)
        b == WherePrimaryKey(updated, PrimaryKey(o), PrimaryKeyValue(o))
        out == ExecContext(order, be)
    IN  OrmResult(AffectedError(out, ErrUpdate, ErrNoneUpdated), b, "exec", out.kind, o, <<>>)

PostgresORM_Update(o, connected, order, be) ==
    IF ~connected THEN OrmResult(ErrNotConnected, NewQueryBuilder, "none", "none", o, <<>>)
    ELSE PostgresTransaction_Update(o, order, be)

PostgresTransaction_Delete(o, be) ==
    LET b == WherePrimaryKey(WriteDelete(NewQueryBuilder, OrmTable),
                             PrimaryKey(o), PrimaryKeyValue(o))
    IN  OrmResult(AffectedError(be, ErrDelete, ErrNoneDeleted), b, "exec", be.kind, o, <<>>)

PostgresORM_Delete(o, connected, be) ==
    IF ~connected THEN OrmResult(ErrNotConnected, NewQueryBuilder, "none", "none", o, <<>>)
    ELSE PostgresTransaction_Delete(o, be)

RECURSIVE SetFieldsLoop(_, _, _, _)
\* for i, column := range columns { SetStructField(model, column, destVal) },
\* stopping at the first error
SetFieldsLoop(o, columns, destinations, i) ==
    IF i > Len(columns) THEN [obj |-> o, err |-> NoErr]
    ELSE LET set == SetStructField(o, columns[i], destinations[i])
         IN  IF set.err # NoErr THEN set
             ELSE SetFieldsLoop(set.obj, columns, destinations, i + 1)

\* row.Scan(destinations...): the i-th value of the row goes to the i-th
\* destination
ScanRow(be, columns, types) ==
    [i \in 1..Len(columns) |-> ScanConvert(be.rows[1][i], types[i])]

\* order is the order in which "for column := range fields" enumerates
PostgresORM_FindByID(o, connected, id, order, be) ==
    IF ~connected THEN OrmResult(ErrNotConnected, NewQueryBuilder, "none", "none", o, <<>>)
    ELSE
    LET b == WherePrimaryKey(WriteFrom(WriteSelect(NewQueryBuilder, <<>>), OrmTable),
                             PrimaryKey(o), id)
    IN  IF be.kind = "error" THEN OrmResult(ErrQuery, b, "queryrow", be.kind, o, <<>>)
        ELSE IF GetStructFields(o).err # NoErr
        THEN OrmResult(ErrStructFields, b, "queryrow", be.kind, o, <<>>)
        ELSE
        LET fields == GetStructFields(o).fields
            columns == order
            types == [i \in 1..Len(columns) |-> fields[columns[i]].type]
        IN  IF be.kind = "noRows" THEN OrmResult(ErrNotFound, b, "queryrow", be.kind, o, <<>>)
            ELSE IF \/ Len(be.rows[1]) # Len(columns)
                    \/ \E i \in 1..Len(columns) : ~CanScan(be.rows[1][i], types[i])
            THEN OrmResult(ErrScan, b, "queryrow", be.kind, o, <<>>)
            ELSE LET set == SetFieldsLoop(o, columns, ScanRow(be, columns, types), 1)
                 IN  OrmResult(IF set.err # NoErr THEN ErrSetField ELSE NoErr,
                               b, "queryrow", be.kind, set.obj, <<>>)

\* the fields that satisfy the match function FindAll gives FieldByNameFunc
MatchingFields(fs, column) ==
    { j \in 1..Len(fs) :
          \/ EqualFold(fs[j].Name, column)
          \/ EqualFold(GetTagName(fs, fs[j].Name), column) }

\* reflect.Value.FieldByNameFunc: the field that matches when exactly one
\* does; several matches cancel each other.  0 stands for the invalid Value.
FieldByNameFunc(fs, column) ==
    LET matching == MatchingFields(fs, column)
    IN  IF Cardinality(matching) = 1 THEN CHOOSE j \in matching : TRUE ELSE 0

\* reflect.New(elemType.Elem()).Elem(): every field holds its zero value
NewElem(fs) == [i \in 1..Len(fs) |-> [fs[i] EXCEPT !.Val = ZeroOf(FieldType(fs[i]))]]

RECURSIVE ScanInto(_, _, _, _)
\* rows.Scan(destinations...) where destination i is the address of field
\* targets[i], or a throwaway interface{} when targets[i] is 0
ScanInto(elem, targets, row, i) ==
    IF i > Len(targets) THEN elem
    ELSE IF targets[i] = 0 THEN ScanInto(elem, targets, row, i + 1)
    ELSE ScanInto([elem EXCEPT ![targets[i]].Val = ScanConvert(row[i], @.type)],
                  targets, row, i + 1)

\* a variant of RowsLoop that hands back an empty destination when a row
\* cannot be scanned
RowsLoopClearing(fs, columns, rows, i, dest) ==
    IF \E r \in 1..Len(rows), k \in 1..Len(columns) :
           /\ FieldByNameFunc(fs, columns[k]) # 0
           /\ IsExported(fs[FieldByNameFunc(fs, columns[k])])
           /\ ~CanScan(rows[r][k], FieldType(fs[FieldByNameFunc(fs, columns[k])]))
    THEN [err |-> ErrScan, dest |-> <<>>]
    ELSE [err |-> NoErr, dest |-> dest]

RECURSIVE RowsLoop(_, _, _, _, _)
\* for rows.Next() { ... }: field.Addr().Interface() panics for a field that
\* is not exported
RowsLoop(fs, columns, rows, i, dest) ==
    IF i > Len(rows) THEN [err |-> NoErr, dest |-> dest]
    ELSE
    LET targets == [k \in 1..Len(columns) |-> FieldByNameFunc(fs, columns[k])]
    IN  IF \E k \in 1..Len(columns) : targets[k] # 0 /\ ~IsExported(fs[targets[k]])
        THEN [err |-> Panic, dest |-> dest]
        ELSE IF \E k \in 1..Len(columns) :
                    targets[k] # 0 /\ ~CanScan(rows[i][k], FieldType(fs[targets[k]]))
        THEN [err |-> ErrScan, dest |-> dest]
        ELSE RowsLoop(fs, columns, rows, i + 1,
                      Append(dest, ScanInto(NewElem(fs), targets, rows[i], 1)))

\* dest interface{}: nil, a slice passed by value, a nil pointer, a pointer
\* to something that is no slice, a pointer to a slice of records (not of
\* pointers to records), or a pointer to a slice of pointers to records;
\* elems is what the slice holds
DestKinds == {"nil", "value", "nilptr", "ptrToOther", "ptrToValueSlice", "ptrToSlice"}

\* the destinations a caller may pass for records of the type of o
Destinations(o) ==
    { [kind |-> k, elems |-> <<>>] : k \in DestKinds }
    \cup { [kind |-> "ptrToSlice", elems |-> <<o.fields>>] }

\* elemType.Elem() panics when the slice's element type is no pointer, which
\* the loop reaches on the first row
PostgresORM_FindAll(o, connected, dest, rs) ==
    IF ~connected
    THEN OrmResult(ErrNotConnected, NewQueryBuilder, "none", "none", o, dest.elems)
    ELSE IF dest.kind \in {"nil", "value", "nilptr"}
    THEN OrmResult(ErrDestNotPointer, NewQueryBuilder, "none", "none", o, dest.elems)
    ELSE IF dest.kind = "ptrToOther"
    THEN OrmResult(ErrDestNotSlice, NewQueryBuilder, "none", "none", o, dest.elems)
    ELSE
    LET b == WriteFrom(WriteSelect(NewQueryBuilder, <<>>), OrmTable)
    IN  IF rs.kind = "error" THEN OrmResult(ErrQuery, b, "query", rs.kind, o, dest.elems)
        ELSE IF dest.kind = "ptrToValueSlice" /\ Len(rs.rows) > 0
        THEN OrmResult(Panic, b, "query", rs.kind, o, dest.elems)
        ELSE LET looped == RowsLoop(o.fields, rs.columns, rs.rows, 1, dest.elems)
             IN  IF looped.err # NoErr
                 THEN OrmResult(looped.err, b, "query", rs.kind, o, looped.dest)
                 ELSE IF rs.kind = "rowsError"
                 THEN OrmResult(ErrIterate, b, "query", rs.kind, o, looped.dest)
                 ELSE OrmResult(NoErr, b, "query", rs.kind, o, looped.dest)

(***************************************************************************)
(* The ORM calls as steps: a caller holding the record obj makes one call  *)
(* and keeps what it returns; the record is changed in place.              *)
(***************************************************************************)
FindIds == { IntVal(5) }

SetNames == { Str_id, Str_name, Str_notag, Str_id \o Str_comma_primary, Str_dash }

SetValues == { IntVal(9), Int64Val(9), StrVal(2), Nil }

InitOrm ==
    /\ obj \in SetObjects
    /\ ret = NoCall
    /\ qb = NewQueryBuilder
    /\ calls = <<>>
    /\ issued = <<>>
    /\ built = NoBuild
    /\ budget = 0
    /\ handle = NewPostgresORM
    /\ procs = <<>>
    /\ heap = <<>>

\* one call per record
MayCallOrm == ret = NoCall /\ obj \in OrmModels

Returned(op, in, res) ==
    /\ ret' = [op |-> op, in |-> in, before |-> obj, res |-> res]
    /\ obj' = res.obj
    /\ UNCHANGED <<qb, calls, issued, built, budget, handle, procs, heap>>

OrmInput(connected, order, be) == [connected |-> connected, order |-> order, be |-> be]

CallSetStructField ==
    /\ ret = NoCall
    /\ \E fieldName \in SetNames, value \in SetValues :
           Returned("SetStructField", [fieldName |-> fieldName, value |-> value],
                    SetStructField(obj, fieldName, value))

\* the handle holds a *sql.DB
Connected == handle.db # "nil"

\* a variant of PostgresORM_Connect that keeps the *sql.DB it opened when
\* the ping fails
PostgresORM_ConnectKeepingDb(h, pinged) ==
    [db |-> "open", connect |-> IF pinged THEN "ok" ELSE "failed"]

\* sql.Open and PingContext succeed (pinged) or one of them fails; p.db is
\* assigned only after both succeeded
PostgresORM_Connect(h, pinged) ==
    IF pinged THEN [db |-> "open", connect |-> "ok"]
    ELSE [h EXCEPT !.connect = "failed"]

\* the caller connects a handle that holds no connection
CallConnect ==
    /\ ret = NoCall
    /\ ~Connected
    /\ \E pinged \in BOOLEAN : handle' = PostgresORM_Connect(handle, pinged)
    /\ UNCHANGED <<obj, ret, qb, calls, issued, built, budget, procs, heap>>

\* no backend call is made: there is no outcome and no enumeration
NotReached == [kind |-> "none", n |-> 0, id |-> Nil, columns |-> <<>>, rows |-> <<>>]

CallCreate ==
    /\ MayCallOrm
    /\ IF Connected
       THEN \E be \in InsertOutcomesFor(obj),
               order \in KeyOrders(DOMAIN GetStructFields(obj).fields) :
                Returned("Create", OrmInput(TRUE, order, be),
                         PostgresORM_Create(obj, TRUE, order, be))
       ELSE Returned("Create", OrmInput(FALSE, <<>>, NotReached),
                     PostgresORM_Create(obj, FALSE, <<>>, NotReached))

CallPkgCreate ==
    /\ MayCallOrm
    /\ IF Connected
       THEN \E be \in InsertOutcomesFor(obj),
               order \in KeyOrders(DOMAIN GetStructFields(obj).fields) :
                Returned("PkgCreate", OrmInput(TRUE, order, be),
                         PkgPostgresORM_Create(obj, TRUE, order, be))
       ELSE Returned("PkgCreate", OrmInput(FALSE, <<>>, NotReached),
                     PkgPostgresORM_Create(obj, FALSE, <<>>, NotReached))

\* a transaction exists only on a connected handle
CallTxCreate ==
    /\ MayCallOrm
    /\ Connected
    /\ \E be \in InsertOutcomesFor(obj),
          order \in KeyOrders(DOMAIN GetStructFields(obj).fields) :
           Returned("TxCreate", OrmInput(TRUE, order, be),
                    PostgresTransaction_Create(obj, order, be))

CallFindByID ==
    /\ MayCallOrm
    /\ obj.pk
    /\ IF Connected
       THEN \E id \in FindIds, be \in RowOutcomes,
               order \in KeyOrders(DOMAIN GetStructFields(obj).fields) :
                Returned("FindByID", OrmInput(TRUE, order, be),
                         PostgresORM_FindByID(obj, TRUE, id, order, be))
       ELSE \E id \in FindIds :
                Returned("FindByID", OrmInput(FALSE, <<>>, NotReached),
                         PostgresORM_FindByID(obj, FALSE, id, <<>>, NotReached))

CallFindAll ==
    /\ MayCallOrm
    /\ IF Connected
       THEN \E dest \in Destinations(obj), rs \in ResultSets :
                Returned("FindAll", [connected |-> TRUE, dest |-> dest, be |-> rs],
                         PostgresORM_FindAll(obj, TRUE, dest, rs))
       ELSE \E dest \in Destinations(obj) :
                Returned("FindAll",
                         [connected |-> FALSE, dest |-> dest, be |-> NotReached],
                         PostgresORM_FindAll(obj, FALSE, dest, NotReached))

CallUpdate ==
    /\ MayCallOrm
    /\ obj.pk
    /\ IF Connected
       THEN \E be \in ExecOutcomes,
               order \in KeyOrders(DOMAIN GetStructFields(obj).fields
                                       \ {PrimaryKey(obj)}) :
                Returned("Update", OrmInput(TRUE, order, be),
                         PostgresORM_Update(obj, TRUE, order, be))
       ELSE Returned("Update", OrmInput(FALSE, <<>>, NotReached),
                     PostgresORM_Update(obj, FALSE, <<>>, NotReached))

CallTxUpdate ==
    /\ MayCallOrm
    /\ Connected
    /\ obj.pk
    /\ \E be \in ExecOutcomes,
          order \in KeyOrders(DOMAIN GetStructFields(obj).fields \ {PrimaryKey(obj)}) :
           Returned("TxUpdate", OrmInput(TRUE, order, be),
                    PostgresTransaction_Update(obj, order, be))

CallDelete ==
    /\ MayCallOrm
    /\ obj.pk
    /\ IF Connected
       THEN \E be \in ExecOutcomes :
                Returned("Delete", OrmInput(TRUE, <<>>, be),
                         PostgresORM_Delete(obj, TRUE, be))
       ELSE Returned("Delete", OrmInput(FALSE, <<>>, NotReached),
                     PostgresORM_Delete(obj, FALSE, NotReached))

CallTxDelete ==
    /\ MayCallOrm
    /\ Connected
    /\ obj.pk
    /\ \E be \in ExecOutcomes :
           Returned("TxDelete", OrmInput(TRUE, <<>>, be),
                    PostgresTransaction_Delete(obj, be))

\* the calls of the handle that take no record: the statement is the
\* caller's, and the error of the driver is returned as it is
ErrDriver == "driver error"
ErrBeginTx == "error starting transaction"

CustomStatements == { <<"q">> }

DriverOutcomes == { [kind |-> k] : k \in {"ok", "error"} }

\* Query, Exec, Transaction and Close: errNotOk is what the call returns
\* when the driver fails
PassToDriver(o, connected, text, call, errNotOk, be) ==
    IF ~connected THEN OrmResult(ErrNotConnected, NewQueryBuilder, "none", "none", o, <<>>)
    ELSE OrmResult(IF be.kind = "ok" THEN NoErr ELSE errNotOk,
                   [query |-> text, args |-> <<>>], call, be.kind, o, <<>>)

PostgresORM_Query(o, connected, text, be) ==
    PassToDriver(o, connected, text, "query", ErrDriver, be)

PostgresORM_Exec(o, connected, text, be) ==
    PassToDriver(o, connected, text, "exec", ErrDriver, be)

PostgresORM_Transaction(o, connected, be) ==
    PassToDriver(o, connected, EmptyStr, "begin", ErrBeginTx, be)

PostgresORM_Close(o, connected, be) ==
    PassToDriver(o, connected, EmptyStr, "close", ErrDriver, be)

CallQuery ==
    /\ ret = NoCall
    /\ \E text \in CustomStatements,
          be \in (IF Connected THEN DriverOutcomes ELSE {NotReached}) :
           Returned("Query", OrmInput(Connected, <<>>, be),
                    PostgresORM_Query(obj, Connected, text, be))

CallExec ==
    /\ ret = NoCall
    /\ \E text \in CustomStatements,
          be \in (IF Connected THEN DriverOutcomes ELSE {NotReached}) :
           Returned("Exec", OrmInput(Connected, <<>>, be),
                    PostgresORM_Exec(obj, Connected, text, be))

CallTransaction ==
    /\ ret = NoCall
    /\ \E be \in (IF Connected THEN DriverOutcomes ELSE {NotReached}) :
           Returned("Transaction", OrmInput(Connected, <<>>, be),
                    PostgresORM_Transaction(obj, Connected, be))

CallClose ==
    /\ ret = NoCall
    /\ \E be \in (IF Connected THEN DriverOutcomes ELSE {NotReached}) :
           Returned("Close", OrmInput(Connected, <<>>, be),
                    PostgresORM_Close(obj, Connected, be))

NextOrm ==
    \/ CallConnect
    \/ CallSetStructField
    \/ CallCreate
    \/ CallPkgCreate
    \/ CallTxCreate
    \/ CallFindByID
    \/ CallFindAll
    \/ CallUpdate
    \/ CallTxUpdate
    \/ CallDelete
    \/ CallTxDelete
    \/ CallQuery
    \/ CallExec
    \/ CallTransaction
    \/ CallClose

SpecOrm == InitOrm /\ [][NextOrm]_vars

(***************************************************************************)
(* Properties of the ORM operations and of SetStructField (under SpecOrm). *)
(***************************************************************************)
\* the record implements ModelWithPrimaryKey and its identity is the zero value
IdentityIsZero(o) == o.pk /\ IsZero(PrimaryKeyValue(o))

IdentityIsNonZero(o) == o.pk /\ ~IsZero(PrimaryKeyValue(o))

\* the columns the mapped fields of o other than its identity field are
\* documented to have
OtherColumns(o) ==
    { DocumentedColumn(o.fields[i]) :
          i \in { j \in 1..Len(o.fields) :
                      Included(o.fields[j]) /\ o.fields[j].Name # Name_ID } }

\* the column lists over a set of columns, each column listed at most once
ColumnListsOver(S) ==
    { <<>> } \cup { <<c>> : c \in S } \cup { p \in [1..2 -> S] : p[1] # p[2] }

\* "INSERT INTO t (c1, ..., cn) VALUES ($1, ..., $n)"
InsertText(cols) ==
    Txt_INSERT_INTO \o OrmTable \o <<" ", "(">> \o JoinWithComma(cols) \o Txt_VALUES
    \o JoinWithComma([i \in 1..Len(cols) |-> ExpectedPlaceholder(i)]) \o <<")">>

\* C11: Create of a record whose identity is the zero value generates an
\* INSERT whose column list does not contain the identity column, binds no
\* argument for it, and ends with RETURNING <identity column>, also for an
\* identity field tagged db:"id,primary" (stated for the Create that reads
\* the generated identity back).
C11_ZeroIdentityOmitted ==
    (/\ ret.op = "Create"
     /\ ret.in.connected
     /\ IdentityIsZero(ret.before)) =>
        \E cols \in ColumnListsOver(OtherColumns(ret.before)) :
            /\ ret.res.query = InsertText(cols) \o Txt_RETURNING \o Str_id
            /\ Len(ret.res.args) = Len(cols)

\* no tag of the record carries an option
NoTagOptions(o) ==
    \A i \in 1..Len(o.fields) : ~Contains(o.fields[i].Tag, <<",">>)

\* C12: Create of a record whose identity is non-zero generates an INSERT
\* that lists the identity column with its value bound like any other field
\* and has no RETURNING clause, attempts no retrieval of a generated value
\* and leaves the identity field as it was (stated for the Create that reads
\* the generated identity back, on records whose tags carry no option).
C12_NonZeroIdentityInserted ==
    (/\ ret.op = "Create"
     /\ ret.in.connected
     /\ IdentityIsNonZero(ret.before)
     /\ NoTagOptions(ret.before)) =>
        /\ \E cols \in ColumnListsOver(OtherColumns(ret.before) \cup {Str_id}) :
               /\ \E i \in 1..Len(cols) :
                      /\ cols[i] = Str_id
                      /\ Len(ret.res.args) = Len(cols)
                      /\ ret.res.args[i] = PrimaryKeyValue(ret.before)
               /\ ret.res.query = InsertText(cols)
        /\ ret.res.call = "exec"
        /\ PrimaryKeyValue(ret.res.obj) = PrimaryKeyValue(ret.before)

\* the index of the identity field of o
IdentityField(o) == CHOOSE i \in 1..Len(o.fields) : o.fields[i].Name = Name_ID

\* the backend executed the INSERT of a zero-identity record and returned
\* the identity it generated
GeneratedIdentityReturned ==
    /\ ret.op \in {"Create", "PkgCreate"}
    /\ IdentityIsZero(ret.before)
    /\ ret.res.call = "queryrow"
    /\ ret.res.out = "ok"

\* the caller's record is as before, but for the generated identity
HoldsGeneratedIdentity ==
    obj = [ret.before EXCEPT
               ![ "fields" ][IdentityField(ret.before)].Val =
                   [type |-> @.type, v |-> ret.in.be.id.v]]

\* C13 (as claimed): when Create inserts a record whose identity is the zero
\* value and the backend executes the INSERT and returns the identity it
\* generated, Create returns no error and the caller's record holds the
\* generated value in its identity field, every other field being as it was.
C13_GeneratedIdentityWrittenBack ==
    GeneratedIdentityReturned =>
        /\ ret.res.err = NoErr
        /\ HoldsGeneratedIdentity

\* C13 (amended): as claimed, when the identity field is of an integer type.
C13_GeneratedIntegerIdentityWrittenBack ==
    (/\ GeneratedIdentityReturned
     /\ FieldType(ret.before.fields[IdentityField(ret.before)]) \in IntegerTypes) =>
        /\ ret.res.err = NoErr
        /\ HoldsGeneratedIdentity

\* a record with a zero identity and another field was inserted and now
\* holds the identity the backend generated
C13_Witness ==
    /\ ret.op = "Create"
    /\ Len(ret.before.fields) = 2
    /\ IdentityIsZero(ret.before)
    /\ ret.res.out = "ok"
    /\ ret.res.err = NoErr
    /\ PrimaryKeyValue(obj) = IntVal(42)

\* the backend executed the statement of an Update or a Delete, on the ORM
\* handle or on a transaction, without error and reported a row count
AffectedRowsReported ==
    /\ ret.op \in {"Update", "TxUpdate", "Delete", "TxDelete"}
    /\ ret.res.call = "exec"
    /\ ret.res.out = "ok"

\* C14: when the backend executes an Update or Delete statement without error
\* and reports zero affected rows, the operation returns an error, on the ORM
\* handle and on the transaction; with one or more affected rows and no
\* backend error it returns success.
C14_ZeroRowsIsError ==
    AffectedRowsReported =>
        /\ ret.in.be.n = 0 => ret.res.err \in {ErrNoneUpdated, ErrNoneDeleted}
        /\ ret.in.be.n >= 1 => ret.res.err = NoErr

\* an Update on a transaction whose statement ran and matched no row
C14_Witness ==
    /\ AffectedRowsReported
    /\ ret.op = "TxUpdate"
    /\ ret.in.be.n = 0
    /\ ret.res.err = ErrNoneUpdated

\* the mapped fields of o
MappedFields(o) == { i \in 1..Len(o.fields) : Included(o.fields[i]) }

\* the result row has exactly one column for each mapped field of the
\* record, named as the field's column is documented to be
RowMatchesRecord(o, be) ==
    /\ be.kind = "ok"
    /\ \A i, j \in MappedFields(o) :
           i # j => DocumentedColumn(o.fields[i]) # DocumentedColumn(o.fields[j])
    /\ Len(be.columns) = Cardinality(MappedFields(o))
    /\ { be.columns[k] : k \in 1..Len(be.columns) }
           = { DocumentedColumn(o.fields[i]) : i \in MappedFields(o) }

\* the value the row holds in column c
RowValue(be, c) ==
    be.rows[1][CHOOSE k \in 1..Len(be.columns) : be.columns[k] = c]

\* C15: after FindByID returns success, every mapped field of the record
\* holds the value of the result-row column of the same name, whatever the
\* order in which the column mapping is enumerated and whatever the order of
\* the columns in the row (stated for rows whose values are of the types of
\* the fields).
C15_FindByIDByName ==
    (/\ ret.op = "FindByID"
     /\ ret.res.err = NoErr
     /\ RowMatchesRecord(ret.before, ret.in.be)) =>
        \A i \in MappedFields(ret.before) :
            LET value == RowValue(ret.in.be, DocumentedColumn(ret.before.fields[i]))
            IN  value.type = FieldType(ret.before.fields[i]) => obj.fields[i].Val = value

\* the records FindAll added to the destination
Appended == SubSeq(ret.res.dest, Len(ret.in.dest.elems) + 1, Len(ret.res.dest))

\* FindAll ran its query and read the result set to its end, and every value
\* of the result set can be scanned into every field its column matches
ResultSetRead ==
    /\ ret.op = "FindAll"
    /\ ret.in.connected
    /\ ret.in.dest.kind = "ptrToSlice"
    /\ ret.in.be.kind = "ok"
    /\ \A r \in 1..Len(ret.in.be.rows), k \in 1..Len(ret.in.be.columns) :
           \A j \in MatchingFields(ret.before.fields, ret.in.be.columns[k]) :
               CanScan(ret.in.be.rows[r][k], FieldType(ret.before.fields[j]))

\* C16: in FindAll every result row is appended to the destination as one
\* new record, and for every result column that matches a field of the
\* element type (identifier or tag-derived column name, case-insensitively)
\* the scanned value is stored in such a field of that record (stated for
\* element types whose fields are all exported and for columns whose
\* matching fields no other column of the result set matches).
C16_FindAllStoresMatchedColumns ==
    (/\ ResultSetRead
     /\ \A j \in 1..Len(ret.before.fields) : IsExported(ret.before.fields[j])) =>
        /\ ret.res.err = NoErr
        /\ Len(Appended) = Len(ret.in.be.rows)
        /\ \A r \in 1..Len(ret.in.be.rows), k \in 1..Len(ret.in.be.columns) :
               LET matching == MatchingFields(ret.before.fields, ret.in.be.columns[k])
                   others == UNION { MatchingFields(ret.before.fields,
                                                    ret.in.be.columns[m]) :
                                         m \in 1..Len(ret.in.be.columns) \ {k} }
               IN  (matching # {} /\ matching \cap others = {}) =>
                       \E j \in matching :
                           Appended[r][j].Val
                               = ScanConvert(ret.in.be.rows[r][k],
                                             FieldType(ret.before.fields[j]))

\* the rule by which a field answers to a name: its tag-derived column name
\* (first tag segment) equals the name or, for a field with no tag, its
\* lower-cased identifier does
AnswersTo(field, fieldName) ==
    \/ (field.Tag # EmptyStr /\ SplitFirst(field.Tag, ",") = fieldName)
    \/ (field.Tag = EmptyStr /\ ToLower(field.Name) = fieldName)

\* SetStructField was called on a pointer to a record with a column name and
\* a value
SetStructFieldCalled ==
    /\ ret.op = "SetStructField"
    /\ ret.before.kind = "ptr"
    /\ ret.in.value # Nil
    /\ ~Contains(ret.in.fieldName, <<",">>)

\* C17: SetStructField fails with the field-not-found error if and only if
\* no field of the record answers to the name by its first tag segment or,
\* with no tag, its lower-cased identifier; in particular a field tagged
\* db:"id,primary" is matched by the name "id".
C17_FieldNotFoundIffNoMatch ==
    SetStructFieldCalled =>
        (ret.res.err = ErrFieldNotFound
            <=> ~\E i \in 1..Len(ret.before.fields) :
                     AnswersTo(ret.before.fields[i], ret.in.fieldName))

\* the field of the record before the call that SetStructField matched
MatchedField ==
    ret.before.fields[CHOOSE i \in 1..Len(ret.before.fields) :
                          /\ FieldMatches(ret.before.fields[i], ret.in.fieldName)
                          /\ \A j \in 1..(i - 1) :
                                 ~FieldMatches(ret.before.fields[j], ret.in.fieldName)]

\* SetStructField matched a field whose declared type differs from the
\* runtime type of the value
MatchedOtherType ==
    /\ ret.op = "SetStructField"
    /\ ret.before.kind = "ptr"
    /\ ret.in.value # Nil
    /\ \E i \in 1..Len(ret.before.fields) :
           FieldMatches(ret.before.fields[i], ret.in.fieldName)
    /\ FieldType(MatchedField) # ret.in.value.type

\* the record after the call is the record before it with the matched field
\* holding v
MatchedFieldHolds(v) ==
    /\ Len(obj.fields) = Len(ret.before.fields)
    /\ \A i \in 1..Len(obj.fields) :
           obj.fields[i] = IF ret.before.fields[i] = MatchedField
                           THEN [MatchedField EXCEPT !.Val = v]
                           ELSE ret.before.fields[i]

IgnoredFields(o) == { i \in 1..Len(o.fields) : o.fields[i].Tag = Str_dash }

\* v is among the arguments bound to the statement (in the records of the
\* model the value of a field tagged db:"-" is the value of no other field
\* and of no identity)
SentAsArgument(v) == \E k \in 1..Len(ret.res.args) : ret.res.args[k] = v

\* C19: a field tagged db:"-" is ignored by every ORM operation: Create and
\* Update send neither a column "-" nor the field's value, FindByID leaves
\* the field as it was, and in every record FindAll appends the field holds
\* its zero value, whatever the columns of the result set.
C19_DashFieldIgnored ==
    \A i \in (IF ret.op = "none" THEN {} ELSE IgnoredFields(ret.before)) :
        /\ ret.op \in {"Create", "PkgCreate", "TxCreate", "Update", "TxUpdate"} =>
               /\ ~SentAsArgument(ret.before.fields[i].Val)
               /\ ~Contains(ret.res.query, Str_dash)
        /\ ret.op = "FindByID" => obj.fields[i] = ret.before.fields[i]
        /\ ret.op = "FindAll" =>
               \A r \in 1..Len(Appended) :
                   Appended[r][i].Val = ZeroOf(FieldType(ret.before.fields[i]))

(***************************************************************************)
(* One builder used for more than one statement: the same steps,           *)
(* restricted to Write, AddParam, Reset and Build, with a call budget of   *)
(* their own (under SpecReuse).                                            *)
(***************************************************************************)
MaxReuse == 4

InitReuse ==
    /\ obj = [kind |-> "nil", fields |-> <<>>]
    /\ ret = NoCall
    /\ qb = NewQueryBuilder
    /\ calls = <<>>
    /\ issued = <<>>
    /\ built = NoBuild
    /\ budget = MaxReuse
    /\ handle = NewPostgresORM
    /\ procs = <<>>
    /\ heap = <<>>

NextReuse ==
    \/ DoWrite
    \/ DoAddParam
    \/ DoReset
    \/ DoBuild

SpecReuse == InitReuse /\ [][NextReuse]_vars

\* what the i-th call of the history returned, when it is a Build
BuiltAt(i) == Build(Replay(NewQueryBuilder, SubSeq(calls, 1, i - 1)))

\* s is t followed by something
IsProperPrefix(s, t) == Len(s) < Len(t) /\ SubSeq(t, 1, Len(s)) = s

\* statement b is statement a with more text or more arguments after it
Extends(a, b) ==
    /\ a.text = SubSeq(b.text, 1, Len(a.text))
    /\ a.args = SubSeq(b.args, 1, Len(a.args))
    /\ Len(a.text) <= Len(b.text)
    /\ Len(a.args) <= Len(b.args)
    /\ (IsProperPrefix(a.text, b.text) \/ IsProperPrefix(a.args, b.args))

\* C21: a builder is consumed by Build: when a Build has returned a
\* statement, a later Build with no Reset in between never returns a
\* statement that extends it by what was written after the first Build.
C21_BuildConsumes ==
    \A i \in 1..(Len(calls) - 1) :
        (/\ calls[i].op = "Build"
         /\ calls[Len(calls)].op = "Build"
         /\ BuiltAt(i).text # EmptyStr
         /\ \A j \in (i + 1)..Len(calls) : ~IsResetAt(j)) =>
            ~Extends(BuiltAt(i), built)

\* C22: GetStructFields returns an error and no mapping for a nil record,
\* for a nil pointer and for a value that is neither a struct nor a pointer
\* to one; it returns a mapping and no error for every struct and every
\* non-nil pointer to a struct.
C22_GetStructFieldsRejectsNonStructs ==
    ret.op = "GetStructFields" =>
        /\ obj.kind \in {"nil", "nilptr", "other"} =>
               /\ ret.res.err # NoErr
               /\ ret.res.isNil
        /\ obj.kind \in {"struct", "ptr"} =>
               /\ ret.res.err = NoErr
               /\ ~ret.res.isNil

C22_Witness ==
    /\ ret.op = "GetStructFields"
    /\ obj.kind = "nilptr"
    /\ ret.res.err = ErrNotStruct
    /\ ret.res.isNil

\* C23: FindAll returns an invalid-destination error, executes no query and
\* leaves the destination as it was whenever the destination is not a
\* non-nil pointer to a slice of pointers to records.
C23_InvalidDestinationRejected ==
    (/\ ret.op = "FindAll"
     /\ ret.in.connected
     /\ ret.in.dest.kind # "ptrToSlice") =>
        /\ ret.res.err \in {ErrDestNotPointer, ErrDestNotSlice}
        /\ ret.res.call = "none"
        /\ ret.res.dest = ret.in.dest.elems

\* row r of the result set holds a value that cannot be scanned into the
\* field its column is bound to
RowFailsToScan(r) ==
    \E k \in 1..Len(ret.in.be.columns) :
        LET j == FieldByNameFunc(ret.before.fields, ret.in.be.columns[k])
        IN  j # 0 /\ ~CanScan(ret.in.be.rows[r][k], FieldType(ret.before.fields[j]))

\* FindAll returned the error of a row that could not be scanned
FailedScanning == ret.op = "FindAll" /\ ret.res.err = ErrScan

\* what FindAll leaves in an empty destination for the first n rows alone
RecordsOfFirst(n) ==
    PostgresORM_FindAll(ret.before, TRUE, [kind |-> "ptrToSlice", elems |-> <<>>],
                        [ret.in.be EXCEPT !.kind = "ok", !.rows = SubSeq(@, 1, n)]).dest

\* C30: when FindAll fails scanning the k-th row, the destination holds what
\* it held before followed by exactly the records of the k-1 rows before it;
\* FindAll never removes what the destination held.
C30_ScanFailureKeepsEarlierRows ==
    /\ FailedScanning =>
           \E k \in 1..Len(ret.in.be.rows) :
               /\ RowFailsToScan(k)
               /\ \A r \in 1..(k - 1) : ~RowFailsToScan(r)
               /\ ret.res.dest = ret.in.dest.elems \o RecordsOfFirst(k - 1)
               /\ Len(ret.res.dest) = Len(ret.in.dest.elems) + k - 1
    /\ ret.op = "FindAll" =>
           /\ Len(ret.in.dest.elems) <= Len(ret.res.dest)
           /\ SubSeq(ret.res.dest, 1, Len(ret.in.dest.elems)) = ret.in.dest.elems

C30_Witness ==
    /\ FailedScanning
    /\ Len(ret.in.dest.elems) = 1
    /\ Len(ret.in.be.rows) = 2
    /\ ~RowFailsToScan(1)
    /\ RowFailsToScan(2)
    /\ Len(ret.res.dest) = 2

\* C26: SetStructField never aborts: whatever the record, the name and the
\* value, a nil value for a matching field included, the call returns
\* success or an error.
C26_SetStructFieldNeverPanics ==
    ret.op = "SetStructField" => ret.res.err # Panic

\* the first position at which sub occurs in s, 0 when it does not
FirstIndexOf(s, sub) ==
    IF Contains(s, sub)
    THEN CHOOSE i \in 1..Len(s) :
             /\ SubSeq(s, i, i + Len(sub) - 1) = sub
             /\ \A j \in 1..(i - 1) : SubSeq(s, j, j + Len(sub) - 1) # sub
    ELSE 0

RECURSIVE SplitAll(_, _)
\* the segments of s between the occurrences of the character sep
SplitAll(s, sep) ==
    IF \E i \in 1..Len(s) : s[i] = sep
    THEN <<SplitFirst(s, sep)>>
         \o SplitAll(SubSeq(s, Len(SplitFirst(s, sep)) + 2, Len(s)), sep)
    ELSE <<s>>

TrimLeft(s) == IF Len(s) > 0 /\ s[1] = " " THEN Tail(s) ELSE s

\* the entries of a comma-separated list as SQL reads it
ListEntries(text) ==
    IF text = EmptyStr THEN <<>>
    ELSE [i \in 1..Len(SplitAll(text, ",")) |-> TrimLeft(SplitAll(text, ",")[i])]

\* the column list of "INSERT INTO t (<column list>) VALUES (...)"
InsertColumnList(query) ==
    SubSeq(query, FirstIndexOf(query, <<"(">>) + 1, FirstIndexOf(query, <<")">>) - 1)

\* the SET list of "UPDATE t SET <set list> WHERE ..."
UpdateSetList(query) ==
    SubSeq(query, Len(Txt_UPDATE \o OrmTable \o Txt_SET) + 1,
           FirstIndexOf(query, Txt_WHERE) - 1)

\* some mapped field of o has the column c and holds v
ColumnHolds(o, c, v) ==
    \E i \in MappedFields(o) :
        DocumentedColumn(o.fields[i]) = c /\ o.fields[i].Val = v

\* an operation of the ORM generated an INSERT statement
InsertGenerated ==
    ret.op \in {"Create", "PkgCreate", "TxCreate"} /\ ret.res.call # "none"

\* an operation of the ORM generated an UPDATE statement
UpdateGenerated ==
    ret.op \in {"Update", "TxUpdate"} /\ ret.res.call # "none"

\* C27: in Create and Update, whatever the order in which the column mapping
\* is enumerated, the columns named in the column list (or SET list) of the
\* generated statement are as many as the arguments bound for them, and the
\* i-th column named is bound to $i, whose argument is that column's field
\* value.
C27_ColumnsAndArgumentsCorrelated ==
    /\ InsertGenerated =>
           LET names == ListEntries(InsertColumnList(ret.res.query))
           IN  /\ Len(names) = Len(ret.res.args)
               /\ SubSeq(ret.res.query, 1, Len(InsertText(names))) = InsertText(names)
               /\ \A i \in 1..Len(names) :
                      ColumnHolds(ret.before, names[i], ret.res.args[i])
    /\ UpdateGenerated =>
           LET entries == ListEntries(UpdateSetList(ret.res.query))
           IN  /\ Len(entries) = Len(ret.res.args) - 1
               /\ \A i \in 1..Len(entries) :
                      \E c \in { DocumentedColumn(ret.before.fields[j]) :
                                     j \in MappedFields(ret.before) } :
                          /\ entries[i] = c \o <<" ", "=", " ">> \o ExpectedPlaceholder(i)
                          /\ ColumnHolds(ret.before, c, ret.res.args[i])

\* the columns the mapped fields of o are documented to have
MappedColumns(o) == { DocumentedColumn(o.fields[i]) : i \in MappedFields(o) }

\* s ends with t
EndsWith(s, t) == Len(t) <= Len(s) /\ SubSeq(s, Len(s) - Len(t) + 1, Len(s)) = t

\* C28: the statement Update generates (on the handle and on a transaction)
\* never assigns the identity column: the columns its SET list names are
\* exactly the record's mapped columns without the one PrimaryKey() names,
\* and the identity value is the last argument, which the WHERE clause
\* references with the highest placeholder; also for an identity field
\* tagged db:"id,primary".
C28_UpdateNeverSetsIdentity ==
    UpdateGenerated =>
        LET entries == ListEntries(UpdateSetList(ret.res.query))
            n == Len(ret.res.args)
        IN  /\ { SplitFirst(entries[i], " ") : i \in 1..Len(entries) }
                   = MappedColumns(ret.before) \ {PrimaryKey(ret.before)}
            /\ n >= 1
            /\ ret.res.args[n] = PrimaryKeyValue(ret.before)
            /\ EndsWith(ret.res.query,
                        Txt_WHERE \o PrimaryKey(ret.before) \o <<" ", "=", " ">>
                        \o ExpectedPlaceholder(n))

\* what Create on the ORM handle makes of the record, the enumeration order
\* and the backend outcome of the call just made
DirectCreate == PostgresORM_Create(ret.before, TRUE, ret.in.order, ret.in.be)

\* C29: Create inside a transaction generates the statement (text and
\* arguments) Create on the ORM handle generates for the same record and
\* leaves the record in the same final state: a zero identity column is
\* omitted, RETURNING is requested and the generated identity is written
\* back (stated for records whose tags carry no option).
C29_TransactionCreateAsDirect ==
    (ret.op = "TxCreate" /\ NoTagOptions(ret.before)) =>
        /\ ret.res.query = DirectCreate.query
        /\ ret.res.args = DirectCreate.args
        /\ obj = DirectCreate.obj

\* no Connect has succeeded on the handle: none was made, or the last one
\* failed
NeverConnected == handle.connect # "ok"

HandleOperations ==
    {"Create", "PkgCreate", "FindByID", "FindAll", "Update", "Delete", "Query",
     "Exec", "Transaction", "Close"}

\* C24: on a handle on which no Connect has succeeded, every operation
\* returns the connection-not-established error, builds and executes no
\* statement and leaves the record and the destination as they were.
C24_NotConnectedIsError ==
    (NeverConnected /\ ret.op \in HandleOperations) =>
        /\ ret.res.err = ErrNotConnected
        /\ ret.res.query = EmptyStr
        /\ ret.res.args = <<>>
        /\ ret.res.call = "none"
        /\ obj = ret.before
        /\ ret.op = "FindAll" => ret.res.dest = ret.in.dest.elems

C24_Witness ==
    /\ handle.connect = "failed"
    /\ ret.op = "Update"
    /\ ret.res.err = ErrNotConnected
    /\ ret.res.call = "none"
    /\ obj = ret.before

(***************************************************************************)
(* Concurrent operations on one connected handle.  Each operation is a     *)
(* goroutine running Create, Update or Delete; its steps are the calls it  *)
(* makes on its QueryBuilder, and the steps of the operations interleave   *)
(* (under SpecConcurrent).                                                 *)
(***************************************************************************)
Procs == {1, 2}

ConcurrentOps == {"Create", "Update", "Delete"}

\* the record each operation is handed: the operations work on different
\* records, whose values differ
RecordOf(p) ==
    IF p = 1
    THEN [kind |-> "ptr", pk |-> TRUE,
          fields |-> <<[Name |-> Name_ID, Tag |-> Str_id, Val |-> IntVal(5)],
                       [Name |-> Name_Name, Tag |-> Str_name, Val |-> IntVal(7)]>>]
    ELSE [kind |-> "ptr", pk |-> TRUE,
          fields |-> <<[Name |-> Name_ID, Tag |-> Str_id, Val |-> StrVal(1)],
                       [Name |-> Name_Name, Tag |-> Str_name, Val |-> StrVal(3)]>>]

\* a variant of NewAddress in which every operation is given the same
\* QueryBuilder instance
SharedAddress(p) == 1

\* qb := utils.NewQueryBuilder(): the pointer to a QueryBuilder allocated by
\* this call, which no other call holds
NewAddress(p) == p

\* the locals of an operation that has not started
Locals(op) ==
    [op |-> op, pc |-> "new", qb |-> 0, order |-> <<>>, placeholder |-> EmptyStr,
     stmt |-> NoBuild, overlapped |-> FALSE]

InitConcurrent ==
    /\ obj = [kind |-> "nil", fields |-> <<>>]
    /\ ret = NoCall
    /\ qb = NewQueryBuilder
    /\ calls = <<>>
    /\ issued = <<>>
    /\ built = NoBuild
    /\ budget = 0
    /\ handle = [db |-> "open", connect |-> "ok"]
    /\ procs \in [Procs -> { Locals(op) : op \in ConcurrentOps }]
    /\ heap = <<>>

\* another operation is between its first and its last step
OthersRunning(p) == \E q \in Procs \ {p} : procs[q].pc \notin {"new", "done"}

\* operation p moves to pc with its builder becoming b
Step(p, pc, b, order, placeholder) ==
    /\ heap' = [a \in DOMAIN heap \cup {procs[p].qb} |->
                    IF a = procs[p].qb THEN b ELSE heap[a]]
    /\ procs' = [procs EXCEPT ![p].pc = pc,
                              ![p].order = order,
                              ![p].placeholder = placeholder,
                              ![p].overlapped = @ \/ OthersRunning(p)]
    /\ UNCHANGED <<obj, ret, qb, calls, issued, built, budget, handle>>

ProcNew ==
    \E p \in Procs :
        /\ procs[p].pc = "new"
        /\ heap' = [a \in DOMAIN heap \cup {NewAddress(p)} |->
                        IF a = NewAddress(p) THEN NewQueryBuilder ELSE heap[a]]
        /\ procs' = [procs EXCEPT ![p].pc = "write",
                                  ![p].qb = NewAddress(p),
                                  ![p].overlapped = @ \/ OthersRunning(p)]
        /\ UNCHANGED <<obj, ret, qb, calls, issued, built, budget, handle>>

\* qb.WriteInsert(model.TableName(), columns, values)
ProcWriteInsert ==
    \E p \in Procs :
        /\ procs[p].pc = "write"
        /\ procs[p].op = "Create"
        /\ \E order \in KeyOrders(DOMAIN GetStructFields(RecordOf(p)).fields) :
               LET o == RecordOf(p)
                   columns == SelectSeq(order,
                                        LAMBDA column :
                                            KeepsColumn(column, PrimaryKey(o),
                                                        PrimaryKeyValue(o)))
                   values == ValuesOfColumns(GetStructFields(o).fields, columns)
               IN  Step(p, "returning",
                        WriteInsert(heap[procs[p].qb], OrmTable, columns, values),
                        order, EmptyStr)

\* qb.WriteReturning(primaryKey)
ProcWriteReturning ==
    \E p \in Procs :
        /\ procs[p].pc = "returning"
        /\ Step(p, "build",
                WriteReturning(heap[procs[p].qb], <<PrimaryKey(RecordOf(p))>>),
                procs[p].order, EmptyStr)

\* qb.WriteUpdate(model.TableName(), columns, values)
ProcWriteUpdate ==
    \E p \in Procs :
        /\ procs[p].pc = "write"
        /\ procs[p].op = "Update"
        /\ \E order \in KeyOrders(DOMAIN GetStructFields(RecordOf(p)).fields
                                      \ {PrimaryKey(RecordOf(p))}) :
               LET fields == MapDelete(GetStructFields(RecordOf(p)).fields,
                                       PrimaryKey(RecordOf(p)))
               IN  Step(p, "param",
                        WriteUpdate(heap[procs[p].qb], OrmTable, order,
                                    ValuesOfColumns(fields, order)),
                        order, EmptyStr)

\* qb.WriteDelete(model.TableName())
ProcWriteDelete ==
    \E p \in Procs :
        /\ procs[p].pc = "write"
        /\ procs[p].op = "Delete"
        /\ Step(p, "param", WriteDelete(heap[procs[p].qb], OrmTable), <<>>, EmptyStr)

\* qb.AddParam(model.PrimaryKeyValue()), the argument of WriteWhere
ProcAddParam ==
    \E p \in Procs :
        /\ procs[p].pc = "param"
        /\ LET added == AddParam(heap[procs[p].qb], PrimaryKeyValue(RecordOf(p)))
           IN  Step(p, "where", added.qb, procs[p].order, added.placeholder)

\* .WriteWhere(fmt.Sprintf("%s = %s", primaryKey, <placeholder>))
ProcWriteWhere ==
    \E p \in Procs :
        /\ procs[p].pc = "where"
        /\ Step(p, "build",
                WriteWhere(heap[procs[p].qb],
                           Sprintf(Lit_eq, <<PrimaryKey(RecordOf(p)),
                                             procs[p].placeholder>>),
                           <<>>),
                procs[p].order, EmptyStr)

\* query, args := qb.Build()
ProcBuild ==
    \E p \in Procs :
        /\ procs[p].pc = "build"
        /\ procs' = [procs EXCEPT ![p].pc = "done",
                                  ![p].stmt = Build(heap[procs[p].qb]),
                                  ![p].overlapped = @ \/ OthersRunning(p)]
        /\ UNCHANGED <<obj, ret, qb, calls, issued, built, budget, handle, heap>>

NextConcurrent ==
    \/ ProcNew
    \/ ProcWriteInsert
    \/ ProcWriteReturning
    \/ ProcWriteUpdate
    \/ ProcWriteDelete
    \/ ProcAddParam
    \/ ProcWriteWhere
    \/ ProcBuild

SpecConcurrent == InitConcurrent /\ [][NextConcurrent]_vars

\* the statement operation p generates when it runs alone
AloneStatement(p) ==
    LET be == [kind |-> "error", n |-> 0, id |-> Nil]
    IN  CASE procs[p].op = "Create" ->
                 PostgresORM_Create(RecordOf(p), TRUE, procs[p].order, be)
          [] procs[p].op = "Update" ->
                 PostgresORM_Update(RecordOf(p), TRUE, procs[p].order, be)
          [] procs[p].op = "Delete" ->
                 PostgresORM_Delete(RecordOf(p), TRUE, be)

\* the values of the record of operation p
OwnValues(p) == { RecordOf(p).fields[i].Val : i \in 1..Len(RecordOf(p).fields) }

\* C25: every operation builds its statement on a builder of its own:
\* under any interleaving of the operations on one handle the statement an
\* operation has built is the one it builds when it runs alone, numbers its
\* placeholders from $1 and binds only values of the operation's own record.
C25_OwnBuilderPerOperation ==
    \A p \in Procs :
        procs[p].pc = "done" =>
            /\ procs[p].stmt.text = AloneStatement(p).query
            /\ procs[p].stmt.args = AloneStatement(p).args
            /\ \A i \in 1..Len(procs[p].stmt.args) :
                   procs[p].stmt.args[i] \in OwnValues(p)
            /\ Contains(procs[p].stmt.text, ExpectedPlaceholder(1))
            /\ ~Contains(procs[p].stmt.text,
                         ExpectedPlaceholder(Len(procs[p].stmt.args) + 1))

C25_Witness ==
    /\ \A p \in Procs : procs[p].pc = "done" /\ procs[p].overlapped
    /\ procs[1].op = "Update"
    /\ procs[2].op = "Update"
    /\ procs[1].stmt.args = <<IntVal(7), IntVal(5)>>
    /\ procs[2].stmt.args = <<StrVal(3), StrVal(1)>>

====
